---- MODULE Spec2Model ----
(***************************************************************************)
(* copilot-proxy-go.  Three parts of the proxy are modelled:               *)
(*                                                                         *)
(*  - the two per-request stream state machines that turn an upstream SSE  *)
(*    body (Chat Completions chunks, Responses events) into an Anthropic   *)
(*    Messages event stream, with the two handlers that drive them         *)
(*    (streamChatToAnthropic, streamResponsesToAnthropic); `out` is the    *)
(*    sequence of SSE events written to the client, in order;              *)
(*  - the POST /v1/messages handler: request normalizer, backend router    *)
(*    and the three request builders (native Messages forwarder,           *)
(*    Responses translator, Chat Completions translator); `upstream` is    *)
(*    the request sent to Copilot;                                         *)
(*  - the Responses passthrough with its stream ID synchronizer;           *)
(*    `forwarded` is the sequence of events written to the client.         *)
(***************************************************************************)
EXTENDS Integers, Sequences, FiniteSets, TLC

VARIABLES
    kind,     \* which translator serves the request: "chat" or "responses"
    cs,       \* the AnthropicStreamState of the request (chat translator)
    rs,       \* the ResponsesStreamState of the request (responses translator)
    out,      \* every SSE event written to the client so far
    events,   \* the events returned by the last TranslateChunk / TranslateEvent call
    phase,    \* "streaming" while readSSE runs, "ended" once the handler has returned
    script,   \* a scripted upstream body (scenario specifications), else << >>
    pos,      \* number of upstream data lines handed to the callback so far
    config,   \* config.Get(): smallModel, compactUseSmallModel
    inbound,  \* the POST /v1/messages request received: << >>, or <<[body, beta]>>
    req,      \* the parsed AnthropicRequest after the normalizer: << >>, or <<request>>
    upstream, \* the request sent to Copilot: << >>, or <<[backend, model, messages, input]>>
    reply,    \* the AnthropicResponse of the previous turn: << >>, or <<response>>
    canonicalIDs, \* StreamIDSync.canonicalIDs of the passthrough stream
    forwarded,    \* every event the Responses passthrough wrote to the client
    now,          \* the wall clock, in seconds
    refreshPC,    \* where the goroutine of StartTokenRefresh stands
    refreshDuration, \* its local refreshDuration, in seconds
    copilotToken, \* state.Global's Copilot bearer
    attemptLog,   \* every FetchCopilotToken call of the loop: when, and its result
    limiter,      \* the RateLimiter: seconds, wait, lastRequest
    callers,      \* the requests inside RateLimiter.Middleware
    apiKeys,      \* config.GetAPIKeys()
    authLog,      \* the requests Auth has answered, with what it did
    conn,         \* a streaming request: its path, the client's connection, the upstream body
    poll          \* the device-code login: where PollAccessToken stands, its polls

streamVars == <<kind, cs, rs, out, events, phase, script, pos>>

requestVars == <<config, inbound, req, upstream, reply>>

syncVars == <<canonicalIDs, forwarded>>

refreshVars == <<refreshPC, refreshDuration, copilotToken, attemptLog>>

limiterVars == <<limiter, callers>>

authVars == <<apiKeys, authLog>>

connVars == <<conn>>

pollVars == <<poll>>

shellVars == <<now, refreshVars, limiterVars, authVars, connVars, pollVars>>

vars == <<streamVars, requestVars, syncVars, shellVars>>

-----------------------------------------------------------------------------
(* Bounds of the model.                                                    *)

\* upstream data lines per request in the free-running specification
MaxEvents == 4

\* length of the scripted bodies of the Chat Completions scenario specification
MaxScript == 5

\* newline deltas a scripted body sends beyond the whitespace guard's threshold
MaxExtraDeltas == 2

-----------------------------------------------------------------------------
(* Values.                                                                 *)

\* a nil *string of the Go structs
Nil == "<nil>"

\* the whitespace guard's threshold
WsLimit == 20

ErrExcessiveWhitespace ==
    "Function call arguments contain excessive whitespace (possible infinite loop). Stream aborted."

ErrNoCompletion == "Stream ended unexpectedly without completion event"

\* err.Error() of a json.Unmarshal failure in a callback
ErrUnmarshal == "invalid character in upstream data"

\* err.Error() of a failed read of the upstream body (scanner.Err())
ErrRead == "upstream read failed"

-----------------------------------------------------------------------------
(* Anthropic SSE events.  `text` carries string payloads, `json` carries   *)
(* the partial_json of an input_json_delta as a sequence of characters.    *)

SSEEvent(event, index, k, text, json) ==
    [event |-> event, index |-> index, kind |-> k, text |-> text, json |-> json,
     usage |-> << >>]

\* AnthropicUsage; the zero value is AnthropicUsage(0, 0, 0)
AnthropicUsage(inputTokens, outputTokens, cacheReadInputTokens) ==
    [input_tokens |-> inputTokens, output_tokens |-> outputTokens,
     cache_read_input_tokens |-> cacheReadInputTokens]

\* DeltaUsage
DeltaUsage(outputTokens) == [output_tokens |-> outputTokens]

\* ChatCompletionUsage; details is << >> when prompt_tokens_details is absent,
\* else <<cached_tokens>>
ChatCompletionUsage(promptTokens, completionTokens, details) ==
    [prompt_tokens |-> promptTokens, completion_tokens |-> completionTokens,
     details |-> details]

\* ResponsesUsage; details is << >> when input_tokens_details is absent, else
\* <<cached_tokens>>
ResponsesUsage(inputTokens, outputTokens, details) ==
    [input_tokens |-> inputTokens, output_tokens |-> outputTokens, details |-> details]

\* message_start carrying the usage of its AnthropicResponse skeleton
MessageStartEventWith(usage) ==
    [SSEEvent("message_start", -1, "", "", << >>) EXCEPT !.usage = <<usage>>]

MessageStartEvent == MessageStartEventWith(AnthropicUsage(0, 0, 0))

ContentBlockStartEvent(index, blockType) ==
    SSEEvent("content_block_start", index, blockType, "", << >>)

ContentBlockDeltaEvent(index, deltaType, text) ==
    SSEEvent("content_block_delta", index, deltaType, text, << >>)

InputJSONDeltaEvent(index, partialJSON) ==
    SSEEvent("content_block_delta", index, "input_json_delta", "", partialJSON)

ContentBlockStopEvent(index) ==
    SSEEvent("content_block_stop", index, "", "", << >>)

\* message_delta carrying its DeltaUsage
MessageDeltaEventWith(stopReason, outputTokens) ==
    [SSEEvent("message_delta", -1, stopReason, "", << >>)
        EXCEPT !.usage = <<DeltaUsage(outputTokens)>>]

MessageDeltaEvent(stopReason) == MessageDeltaEventWith(stopReason, 0)

MessageStopEvent == SSEEvent("message_stop", -1, "", "", << >>)

StreamErrorEvent(message) == SSEEvent("error", -1, "api_error", message, << >>)

\* a machine mid-call: its state, the events appended so far, and whether the
\* call has already returned
Emit(m, e) == [m EXCEPT !.events = Append(@, e)]

mapStopReason(reason) ==
    CASE reason = "stop" -> "end_turn"
      [] reason = "length" -> "max_tokens"
      [] reason = "tool_calls" -> "tool_use"
      [] reason = "content_filter" -> "end_turn"
      [] OTHER -> "end_turn"

-----------------------------------------------------------------------------
(* Chat Completions -> Anthropic: AnthropicStreamState.                    *)

NewAnthropicStreamState(isClaudeModel) ==
    [ blockIndex    |-> -1,
      openBlockType |-> "",
      toolCallMap   |-> << >>,
      hasStarted    |-> FALSE,
      inputTokens   |-> 0,
      outputTokens  |-> 0,
      cachedTokens  |-> 0,
      isClaudeModel |-> isClaudeModel ]

A_closeCurrentBlock(m) ==
    IF m.s.openBlockType = ""
    THEN m
    ELSE [m EXCEPT !.events = Append(@, ContentBlockStopEvent(m.s.blockIndex)),
                   !.s.openBlockType = ""]

A_openBlock(m, blockType) ==
    IF m.s.openBlockType # ""
    THEN m
    ELSE [m EXCEPT !.s.blockIndex = @ + 1,
                   !.s.openBlockType = blockType,
                   !.events = Append(@, ContentBlockStartEvent(m.s.blockIndex + 1, blockType))]

openThinkingBlock(m) == A_openBlock(m, "thinking")

openTextBlock(m) == A_openBlock(m, "text")

\* "Emit message_start on first chunk"
A_messageStart(m, chunk) ==
    IF ~m.s.hasStarted
    THEN LET usage ==
                 IF chunk.usage # << >>
                 THEN LET u == chunk.usage[1]
                      IN  IF u.details # << >>
                          THEN AnthropicUsage(u.prompt_tokens - u.details[1], 0, u.details[1])
                          ELSE AnthropicUsage(u.prompt_tokens, 0, 0)
                 ELSE AnthropicUsage(0, 0, 0)
         IN  [m EXCEPT !.s.hasStarted = TRUE,
                       !.s.inputTokens = IF chunk.usage # << >> THEN usage.input_tokens ELSE @,
                       !.s.cachedTokens = IF chunk.usage # << >>
                                          THEN usage.cache_read_input_tokens ELSE @,
                       !.events = Append(@, MessageStartEventWith(usage))]
    ELSE m

\* "Handle reasoning_text (thinking)"
A_reasoningText(m, delta) ==
    IF delta.reasoningText # Nil /\ delta.reasoningText # ""
    THEN IF m.s.openBlockType = "text" /\ m.s.isClaudeModel
         THEN [Emit(m, ContentBlockDeltaEvent(m.s.blockIndex, "text_delta", delta.reasoningText))
                 EXCEPT !.returned = TRUE]
         ELSE LET m1 == IF m.s.openBlockType # "thinking"
                        THEN openThinkingBlock(A_closeCurrentBlock(m))
                        ELSE m
              IN  Emit(m1, ContentBlockDeltaEvent(m1.s.blockIndex, "thinking_delta",
                                                  delta.reasoningText))
    ELSE m

\* the reasoning_opaque rule leaving the thinking block open after its signature
A_reasoningOpaque_NoClose(m, delta) ==
    IF delta.reasoningOpaque # Nil /\ delta.reasoningOpaque # ""
    THEN IF m.s.openBlockType = "thinking"
         THEN Emit(m, ContentBlockDeltaEvent(m.s.blockIndex, "signature_delta",
                                             delta.reasoningOpaque))
         ELSE LET m1 == openThinkingBlock(A_closeCurrentBlock(m))
                  m2 == Emit(m1, ContentBlockDeltaEvent(m1.s.blockIndex, "thinking_delta",
                                                        "Thinking..."))
                  m3 == Emit(m2, ContentBlockDeltaEvent(m2.s.blockIndex, "signature_delta",
                                                        delta.reasoningOpaque))
              IN  A_closeCurrentBlock(m3)
    ELSE m

\* "Handle reasoning_opaque"
A_reasoningOpaque(m, delta) ==
    IF delta.reasoningOpaque # Nil /\ delta.reasoningOpaque # ""
    THEN IF m.s.openBlockType = "thinking"
         THEN A_closeCurrentBlock(
                  Emit(m, ContentBlockDeltaEvent(m.s.blockIndex, "signature_delta",
                                                 delta.reasoningOpaque)))
         ELSE IF delta.content # Nil /\ delta.content = "" /\ m.s.openBlockType = "thinking"
         THEN A_closeCurrentBlock(
                  Emit(m, ContentBlockDeltaEvent(m.s.blockIndex, "signature_delta",
                                                 delta.reasoningOpaque)))
         ELSE LET m1 == openThinkingBlock(A_closeCurrentBlock(m))
                  m2 == Emit(m1, ContentBlockDeltaEvent(m1.s.blockIndex, "thinking_delta",
                                                        "Thinking..."))
                  m3 == Emit(m2, ContentBlockDeltaEvent(m2.s.blockIndex, "signature_delta",
                                                        delta.reasoningOpaque))
              IN  A_closeCurrentBlock(m3)
    ELSE m

\* "Handle text content"
A_content(m, delta) ==
    IF delta.content # Nil /\ delta.content # ""
    THEN LET m1 == IF m.s.openBlockType = "thinking"
                   THEN A_closeCurrentBlock(
                            Emit(m, ContentBlockDeltaEvent(m.s.blockIndex,
                                                           "signature_delta", "")))
                   ELSE m
             m2 == IF m1.s.openBlockType # "text"
                   THEN openTextBlock(A_closeCurrentBlock(m1))
                   ELSE m1
         IN  Emit(m2, ContentBlockDeltaEvent(m2.s.blockIndex, "text_delta", delta.content))
    ELSE m

\* A_toolCall with the close of the current block left out
A_toolCall_NoClose(m, tc) ==
    LET exists == tc.index \in DOMAIN m.s.toolCallMap
        m1 == IF exists
              THEN m
              ELSE LET b == m.s.blockIndex + 1
                   IN  [m EXCEPT !.s.blockIndex = b,
                                 !.s.toolCallMap = (tc.index :> b) @@ @,
                                 !.s.openBlockType = "tool_use",
                                 !.events = Append(@, ContentBlockStartEvent(b, "tool_use"))]
        blockIdx == m1.s.toolCallMap[tc.index]
    IN  IF tc.arguments # << >>
        THEN Emit(m1, InputJSONDeltaEvent(blockIdx, tc.arguments))
        ELSE m1

\* one iteration of "for _, tc := range delta.ToolCalls"
A_toolCall(m, tc) ==
    LET exists == tc.index \in DOMAIN m.s.toolCallMap
        m1 == IF exists
              THEN m
              ELSE LET c == A_closeCurrentBlock(m)
                       b == c.s.blockIndex + 1
                   IN  [c EXCEPT !.s.blockIndex = b,
                                 !.s.toolCallMap = (tc.index :> b) @@ @,
                                 !.s.openBlockType = "tool_use",
                                 !.events = Append(@, ContentBlockStartEvent(b, "tool_use"))]
        blockIdx == m1.s.toolCallMap[tc.index]
    IN  IF tc.arguments # << >>
        THEN Emit(m1, InputJSONDeltaEvent(blockIdx, tc.arguments))
        ELSE m1

RECURSIVE A_toolCalls(_, _)
A_toolCalls(m, tcs) ==
    IF tcs = << >> THEN m ELSE A_toolCalls(A_toolCall(m, Head(tcs)), Tail(tcs))

\* "Handle finish_reason"
A_finishReason(m, chunk) ==
    IF chunk.finishReason # Nil
    THEN LET m1 == A_closeCurrentBlock(m)
             o  == IF chunk.usage # << >> THEN chunk.usage[1].completion_tokens
                   ELSE m1.s.outputTokens
             m2 == Emit([m1 EXCEPT !.s.outputTokens = o],
                        MessageDeltaEventWith(mapStopReason(chunk.finishReason), o))
         IN  Emit(m2, MessageStopEvent)
    ELSE m

\* AnthropicStreamState.TranslateChunk: the state after the call and the
\* events it returns
TranslateChunk(s, chunk) ==
    LET m0 == A_messageStart([s |-> s, events |-> << >>, returned |-> FALSE], chunk)
    IN  IF ~chunk.hasChoices
        THEN IF chunk.usage # << >>
             THEN [m0 EXCEPT !.s.outputTokens = chunk.usage[1].completion_tokens]
             ELSE m0
        ELSE LET m1 == A_reasoningText(m0, chunk.delta)
             IN  IF m1.returned
                 THEN m1
                 ELSE A_finishReason(
                          A_toolCalls(
                              A_content(A_reasoningOpaque(m1, chunk.delta), chunk.delta),
                              chunk.delta.toolCalls),
                          chunk)

-----------------------------------------------------------------------------
(* Upstream Chat Completions chunks.                                       *)

ToolCallDelta(index, arguments) == [index |-> index, arguments |-> arguments]

ChunkDelta(rt, ro, content, toolCalls) ==
    [reasoningText |-> rt, reasoningOpaque |-> ro, content |-> content,
     toolCalls |-> toolCalls]

\* a data line that parses: with or without choices
Chunk(delta, finishReason) ==
    [valid |-> TRUE, hasChoices |-> TRUE, delta |-> delta, finishReason |-> finishReason,
     usage |-> << >>]

UsageOnlyChunk ==
    [valid |-> TRUE, hasChoices |-> FALSE, delta |-> ChunkDelta(Nil, Nil, Nil, << >>),
     finishReason |-> Nil, usage |-> << >>]

\* a chunk whose usage field is present
ChunkWithUsage(chunk, usage) == [chunk EXCEPT !.usage = <<usage>>]

\* a data line json.Unmarshal rejects
MalformedChunk == [UsageOnlyChunk EXCEPT !.valid = FALSE]

TC0 == ToolCallDelta(0, <<"{">>)
TC1 == ToolCallDelta(1, <<"{">>)

ChatChunks ==
    { UsageOnlyChunk, MalformedChunk,
      Chunk(ChunkDelta("r", Nil, Nil, << >>), Nil),
      Chunk(ChunkDelta(Nil, "o", Nil, << >>), Nil),
      Chunk(ChunkDelta(Nil, Nil, "c", << >>), Nil),
      Chunk(ChunkDelta(Nil, "o", "", << >>), Nil),
      Chunk(ChunkDelta(Nil, Nil, Nil, <<ToolCallDelta(0, << >>)>>), Nil),
      Chunk(ChunkDelta(Nil, Nil, Nil, <<TC0>>), Nil),
      Chunk(ChunkDelta(Nil, Nil, Nil, <<TC1>>), Nil),
      Chunk(ChunkDelta(Nil, Nil, Nil, <<TC0, TC1>>), Nil),
      Chunk(ChunkDelta(Nil, Nil, "c", <<TC0>>), Nil),
      Chunk(ChunkDelta(Nil, Nil, Nil, << >>), "stop"),
      Chunk(ChunkDelta(Nil, Nil, Nil, << >>), "tool_calls"),
      Chunk(ChunkDelta(Nil, Nil, "c", << >>), "stop"),
      Chunk(ChunkDelta("r", Nil, Nil, << >>), "stop") }

-----------------------------------------------------------------------------
(* Responses -> Anthropic: ResponsesStreamState.                           *)

NewResponsesStreamState ==
    [ blockIndex            |-> -1,
      openBlockType         |-> "",
      toolCallBlocks        |-> << >>,
      hasStarted            |-> FALSE,
      messageCompleted      |-> FALSE,
      inputTokens           |-> 0,
      outputTokens          |-> 0,
      cachedTokens          |-> 0,
      wsRunLength           |-> << >>,
      reasoningSummaryBlock |-> << >>,
      blockHasDelta         |-> {},
      textBlockByKey        |-> << >> ]

\* a read of a Go map[int]int: the zero value when the key is absent
MapGet(mp, key) == IF key \in DOMAIN mp THEN mp[key] ELSE 0

MapPut(mp, key, value) == (key :> value) @@ mp

R_closeCurrentBlock(m) ==
    IF m.s.openBlockType = ""
    THEN m
    ELSE [m EXCEPT !.events = Append(@, ContentBlockStopEvent(m.s.blockIndex)),
                   !.s.openBlockType = ""]

\* strings.Join(parts, "\n")
RECURSIVE JoinLines(_)
JoinLines(parts) ==
    IF Len(parts) = 0 THEN ""
    ELSE IF Len(parts) = 1 THEN parts[1]
    ELSE parts[1] \o "\n" \o JoinLines(Tail(parts))

\* the thinking text of a reasoning item
ReasoningThinking(item) ==
    IF Len(item.summary) > 0 THEN JoinLines(item.summary) ELSE "Thinking..."

\* the signature of a reasoning item
ReasoningSignature(item) ==
    IF item.encryptedContent # ""
    THEN IF item.id # "" THEN item.encryptedContent \o "@" \o item.id
                         ELSE item.encryptedContent
    ELSE ""

\* the usage translateResponsesResultToAnthropic derives from a result
ResponsesResultUsage(usage) ==
    IF usage # << >>
    THEN LET u == usage[1]
         IN  IF u.details # << >>
             THEN AnthropicUsage(u.input_tokens - u.details[1], u.output_tokens,
                                 u.details[1])
             ELSE AnthropicUsage(u.input_tokens, u.output_tokens, 0)
    ELSE AnthropicUsage(0, 0, 0)

\* the stop reason translateResponsesResultToAnthropic derives from a result
ResponsesStopReason(result) ==
    IF result.status = "completed" /\ result.hasFuncCall THEN "tool_use"
    ELSE IF result.status = "incomplete" /\ result.reason = "max_output_tokens"
    THEN "max_tokens"
    ELSE "end_turn"

\* the whitespace scan of one arguments delta, from the run length so far
RECURSIVE WsScan(_, _)
WsScan(wsCount, delta) ==
    IF delta = << >> THEN wsCount
    ELSE IF Head(delta) \in {"\r", "\n", "\t"}
    THEN WsScan(wsCount + 1, Tail(delta))
    ELSE WsScan(0, Tail(delta))

\* case "response.created"
R_created(m, evt) ==
    LET usage ==
            IF evt.usage # << >>
            THEN LET u == evt.usage[1]
                 IN  IF u.details # << >>
                     THEN AnthropicUsage(u.input_tokens - u.details[1], 0, u.details[1])
                     ELSE AnthropicUsage(u.input_tokens, 0, 0)
            ELSE AnthropicUsage(0, 0, 0)
    IN  Emit([m EXCEPT !.s.hasStarted = TRUE,
                       !.s.inputTokens = IF evt.usage # << >> THEN usage.input_tokens ELSE @,
                       !.s.cachedTokens = IF evt.usage # << >>
                                          THEN usage.cache_read_input_tokens ELSE @],
             MessageStartEventWith(usage))

\* case "response.output_item.added"
R_outputItemAdded(m, evt) ==
    IF evt.item.type = "function_call"
    THEN LET c == R_closeCurrentBlock(m)
             b == c.s.blockIndex + 1
         IN  [c EXCEPT !.s.blockIndex = b,
                       !.s.toolCallBlocks = MapPut(@, evt.outputIndex, b),
                       !.s.openBlockType = "tool_use",
                       !.s.wsRunLength = MapPut(@, evt.outputIndex, 0),
                       !.events = Append(@, ContentBlockStartEvent(b, "tool_use"))]
    ELSE m

\* case "response.output_item.done"
R_outputItemDone(m, evt) ==
    LET m1 == IF evt.item.type = "reasoning"
              THEN LET c  == R_closeCurrentBlock(m)
                       b  == c.s.blockIndex + 1
                       o  == [c EXCEPT !.s.blockIndex = b, !.s.openBlockType = "thinking"]
                       e1 == Emit(o, ContentBlockStartEvent(b, "thinking"))
                       e2 == Emit(e1, ContentBlockDeltaEvent(b, "thinking_delta",
                                                             ReasoningThinking(evt.item)))
                       e3 == IF ReasoningSignature(evt.item) # ""
                             THEN Emit(e2, ContentBlockDeltaEvent(b, "signature_delta",
                                                                  ReasoningSignature(evt.item)))
                             ELSE e2
                   IN  R_closeCurrentBlock(e3)
              ELSE m
    IN  IF /\ evt.item.type = "function_call"
           /\ evt.outputIndex \in DOMAIN m1.s.toolCallBlocks
           /\ m1.s.openBlockType = "tool_use"
           /\ m1.s.blockIndex = m1.s.toolCallBlocks[evt.outputIndex]
        THEN R_closeCurrentBlock(m1)
        ELSE m1

\* the lazily opened thinking block of an output index
R_openOrGetThinkingBlock(m, outputIndex) ==
    IF outputIndex \in DOMAIN m.s.reasoningSummaryBlock
    THEN m
    ELSE LET c == R_closeCurrentBlock(m)
             b == c.s.blockIndex + 1
         IN  [c EXCEPT !.s.blockIndex = b,
                       !.s.reasoningSummaryBlock = MapPut(@, outputIndex, b),
                       !.s.openBlockType = "thinking",
                       !.events = Append(@, ContentBlockStartEvent(b, "thinking"))]

\* case "response.reasoning_summary_text.delta"
R_reasoningSummaryTextDelta(m, evt) ==
    LET m1       == R_openOrGetThinkingBlock(m, evt.outputIndex)
        blockIdx == m1.s.reasoningSummaryBlock[evt.outputIndex]
    IN  [Emit(m1, ContentBlockDeltaEvent(blockIdx, "thinking_delta", evt.text))
           EXCEPT !.s.blockHasDelta = @ \cup {blockIdx}]

\* case "response.reasoning_summary_text.done"
R_reasoningSummaryTextDone(m, evt) ==
    LET m1       == R_openOrGetThinkingBlock(m, evt.outputIndex)
        blockIdx == m1.s.reasoningSummaryBlock[evt.outputIndex]
    IN  IF evt.text # "" /\ blockIdx \notin m1.s.blockHasDelta
        THEN Emit(m1, ContentBlockDeltaEvent(blockIdx, "thinking_delta", evt.text))
        ELSE m1

\* openOrGetTextBlock with the increment of blockIndex left out
openOrGetTextBlock_NoIncrement(m, outputIndex, contentIndex) ==
    LET key == <<outputIndex, contentIndex>>
    IN  IF key \in DOMAIN m.s.textBlockByKey
        THEN m
        ELSE LET c == R_closeCurrentBlock(m)
                 b == c.s.blockIndex
             IN  [c EXCEPT !.s.textBlockByKey = MapPut(@, key, b),
                           !.s.openBlockType = "text",
                           !.events = Append(@, ContentBlockStartEvent(b, "text"))]

openOrGetTextBlock(m, outputIndex, contentIndex) ==
    LET key == <<outputIndex, contentIndex>>
    IN  IF key \in DOMAIN m.s.textBlockByKey
        THEN m
        ELSE LET c == R_closeCurrentBlock(m)
                 b == c.s.blockIndex + 1
             IN  [c EXCEPT !.s.blockIndex = b,
                           !.s.textBlockByKey = MapPut(@, key, b),
                           !.s.openBlockType = "text",
                           !.events = Append(@, ContentBlockStartEvent(b, "text"))]

\* case "response.output_text.delta"
R_outputTextDelta(m, evt) ==
    LET m1       == openOrGetTextBlock(m, evt.outputIndex, evt.contentIndex)
        blockIdx == m1.s.textBlockByKey[<<evt.outputIndex, evt.contentIndex>>]
    IN  [Emit(m1, ContentBlockDeltaEvent(blockIdx, "text_delta", evt.text))
           EXCEPT !.s.blockHasDelta = @ \cup {blockIdx}]

\* case "response.output_text.done"
R_outputTextDone(m, evt) ==
    LET m1       == openOrGetTextBlock(m, evt.outputIndex, evt.contentIndex)
        blockIdx == m1.s.textBlockByKey[<<evt.outputIndex, evt.contentIndex>>]
    IN  IF evt.text # "" /\ blockIdx \notin m1.s.blockHasDelta
        THEN Emit(m1, ContentBlockDeltaEvent(blockIdx, "text_delta", evt.text))
        ELSE m1

\* "Infinite whitespace detection": what the guard does once the run has been
\* found to exceed the limit
R_whitespaceAbort(m) ==
    [Emit(R_closeCurrentBlock(m), StreamErrorEvent(ErrExcessiveWhitespace))
       EXCEPT !.returned = TRUE]

\* the arguments delta case with the guard firing one character early
R_functionCallArgumentsDelta_OffByOne(m, evt) ==
    LET wsCount == WsScan(MapGet(m.s.wsRunLength, evt.outputIndex), evt.arguments)
        m1      == [m EXCEPT !.s.wsRunLength = MapPut(@, evt.outputIndex, wsCount)]
    IN  IF wsCount >= WsLimit
        THEN R_whitespaceAbort(m1)
        ELSE IF evt.outputIndex \in DOMAIN m1.s.toolCallBlocks
        THEN LET blockIdx == m1.s.toolCallBlocks[evt.outputIndex]
             IN  [Emit(m1, InputJSONDeltaEvent(blockIdx, evt.arguments))
                    EXCEPT !.s.blockHasDelta = @ \cup {blockIdx}]
        ELSE m1

\* case "response.function_call_arguments.delta"
R_functionCallArgumentsDelta(m, evt) ==
    LET wsCount == WsScan(MapGet(m.s.wsRunLength, evt.outputIndex), evt.arguments)
        m1      == [m EXCEPT !.s.wsRunLength = MapPut(@, evt.outputIndex, wsCount)]
    IN  IF wsCount > WsLimit
        THEN R_whitespaceAbort(m1)
        ELSE IF evt.outputIndex \in DOMAIN m1.s.toolCallBlocks
        THEN LET blockIdx == m1.s.toolCallBlocks[evt.outputIndex]
             IN  [Emit(m1, InputJSONDeltaEvent(blockIdx, evt.arguments))
                    EXCEPT !.s.blockHasDelta = @ \cup {blockIdx}]
        ELSE m1

\* the "done" case emitting the final arguments whether or not a delta was
\* forwarded
R_functionCallArgumentsDone_Always(m, evt) ==
    IF evt.outputIndex \in DOMAIN m.s.toolCallBlocks /\ evt.arguments # << >>
    THEN Emit(m, InputJSONDeltaEvent(m.s.toolCallBlocks[evt.outputIndex], evt.arguments))
    ELSE m

\* case "response.function_call_arguments.done"
R_functionCallArgumentsDone(m, evt) ==
    IF evt.outputIndex \in DOMAIN m.s.toolCallBlocks
    THEN LET blockIdx == m.s.toolCallBlocks[evt.outputIndex]
         IN  IF evt.arguments # << >> /\ blockIdx \notin m.s.blockHasDelta
             THEN Emit(m, InputJSONDeltaEvent(blockIdx, evt.arguments))
             ELSE m
    ELSE m

\* case "response.completed", "response.incomplete"
R_completed(m, evt) ==
    LET m1 == R_closeCurrentBlock([m EXCEPT !.s.messageCompleted = TRUE])
        o  == ResponsesResultUsage(evt.usage).output_tokens
        m2 == Emit([m1 EXCEPT !.s.outputTokens = o],
                   MessageDeltaEventWith(ResponsesStopReason(evt.result), o))
    IN  Emit(m2, MessageStopEvent)

\* case "response.failed"
R_failed(m, evt) ==
    LET m1 == R_closeCurrentBlock([m EXCEPT !.s.messageCompleted = TRUE])
    IN  Emit(m1, StreamErrorEvent(IF evt.text # "" THEN evt.text ELSE "Response failed"))

\* case "error"
R_error(m, evt) ==
    LET m1 == R_closeCurrentBlock([m EXCEPT !.s.messageCompleted = TRUE])
    IN  Emit(m1, StreamErrorEvent(evt.text))

\* the event types whose payload is unmarshalled with the error returned
ChecksUnmarshal(eventType) ==
    eventType \in { "response.created", "response.output_item.added",
                    "response.output_item.done",
                    "response.reasoning_summary_text.delta",
                    "response.reasoning_summary_text.done",
                    "response.output_text.delta", "response.output_text.done",
                    "response.function_call_arguments.delta",
                    "response.function_call_arguments.done" }

\* ResponsesStreamState.TranslateEvent: the state after the call, the events
\* it returns and whether it returns an error
TranslateEvent(s, evt) ==
    LET m == [s |-> s, events |-> << >>, returned |-> FALSE, err |-> FALSE]
        t == evt.type
    IN  IF ChecksUnmarshal(t) /\ ~evt.valid
        THEN [m EXCEPT !.err = TRUE]
        ELSE CASE t = "response.created" -> R_created(m, evt)
               [] t = "response.output_item.added" -> R_outputItemAdded(m, evt)
               [] t = "response.output_item.done" -> R_outputItemDone(m, evt)
               [] t = "response.reasoning_summary_text.delta" ->
                      R_reasoningSummaryTextDelta(m, evt)
               [] t = "response.reasoning_summary_text.done" ->
                      R_reasoningSummaryTextDone(m, evt)
               [] t = "response.output_text.delta" -> R_outputTextDelta(m, evt)
               [] t = "response.output_text.done" -> R_outputTextDone(m, evt)
               [] t = "response.function_call_arguments.delta" ->
                      R_functionCallArgumentsDelta(m, evt)
               [] t = "response.function_call_arguments.done" ->
                      R_functionCallArgumentsDone(m, evt)
               [] t \in {"response.completed", "response.incomplete"} ->
                      R_completed(m, evt)
               [] t = "response.failed" -> R_failed(m, evt)
               [] t = "error" -> R_error(m, evt)
               [] OTHER -> m

IsComplete(s) == s.messageCompleted

-----------------------------------------------------------------------------
(* Upstream Responses events.                                              *)

NoItem == [type |-> "", summary |-> << >>, encryptedContent |-> "", id |-> ""]

NoResult == [status |-> "", hasFuncCall |-> FALSE, reason |-> ""]

ResponsesEvent(type) ==
    [type |-> type, valid |-> TRUE, outputIndex |-> 0, contentIndex |-> 0,
     item |-> NoItem, text |-> "", arguments |-> << >>, result |-> NoResult,
     usage |-> << >>]

\* an event whose response object carries a usage
EventWithUsage(evt, usage) == [evt EXCEPT !.usage = <<usage>>]

ItemEvent(type, outputIndex, itemType) ==
    [ResponsesEvent(type) EXCEPT !.outputIndex = outputIndex, !.item.type = itemType]

ReasoningDone(outputIndex, summary, encryptedContent, id) ==
    [ResponsesEvent("response.output_item.done") EXCEPT
        !.outputIndex = outputIndex,
        !.item = [type |-> "reasoning", summary |-> summary,
                  encryptedContent |-> encryptedContent, id |-> id]]

TextEvent(type, outputIndex, contentIndex, text) ==
    [ResponsesEvent(type) EXCEPT !.outputIndex = outputIndex,
                                 !.contentIndex = contentIndex, !.text = text]

ArgumentsEvent(type, outputIndex, arguments) ==
    [ResponsesEvent(type) EXCEPT !.outputIndex = outputIndex, !.arguments = arguments]

ResultEvent(type, status, hasFuncCall, reason) ==
    [ResponsesEvent(type) EXCEPT
        !.result = [status |-> status, hasFuncCall |-> hasFuncCall, reason |-> reason]]

\* a data line json.Unmarshal rejects
MalformedEvent(type) == [ResponsesEvent(type) EXCEPT !.valid = FALSE]

\* n newline characters
Newlines(n) == [i \in 1..n |-> "\n"]

ResponsesEvents ==
    { ResponsesEvent("response.created"),
      ResponsesEvent("response.in_progress"),
      MalformedEvent("response.output_text.delta"),
      ItemEvent("response.output_item.added", 0, "function_call"),
      ItemEvent("response.output_item.added", 1, "function_call"),
      ItemEvent("response.output_item.added", 0, "message"),
      ItemEvent("response.output_item.done", 0, "function_call"),
      ItemEvent("response.output_item.done", 1, "function_call"),
      ReasoningDone(0, <<"a", "b">>, "E", "r1"),
      ReasoningDone(0, << >>, "", ""),
      TextEvent("response.reasoning_summary_text.delta", 0, 0, "t"),
      TextEvent("response.reasoning_summary_text.done", 0, 0, "t"),
      TextEvent("response.output_text.delta", 0, 0, "c"),
      TextEvent("response.output_text.delta", 1, 0, "c"),
      TextEvent("response.output_text.done", 0, 0, "c"),
      ArgumentsEvent("response.function_call_arguments.delta", 0, <<"{">>),
      ArgumentsEvent("response.function_call_arguments.delta", 0, Newlines(WsLimit)),
      ArgumentsEvent("response.function_call_arguments.delta", 0, Newlines(WsLimit + 1)),
      ArgumentsEvent("response.function_call_arguments.delta", 0,
                     Newlines(WsLimit + 1) \o <<"}">>),
      ArgumentsEvent("response.function_call_arguments.delta", 1, <<"\t">>),
      ArgumentsEvent("response.function_call_arguments.done", 0, <<"{", "}">>),
      ResultEvent("response.completed", "completed", FALSE, ""),
      ResultEvent("response.completed", "completed", TRUE, ""),
      ResultEvent("response.incomplete", "incomplete", FALSE, "max_output_tokens"),
      TextEvent("response.failed", 0, 0, "boom"),
      TextEvent("error", 0, 0, "boom") }

-----------------------------------------------------------------------------
(* The parts of the proxy a behaviour does not exercise stay idle.         *)

\* defaultConfig(): the two settings the normalizer reads
defaultConfig == [smallModel |-> <<"gpt", "5", "mini">>, compactUseSmallModel |-> TRUE]

\* no POST /v1/messages request has been received
RequestIdle ==
    /\ config = defaultConfig
    /\ inbound = << >>
    /\ req = << >>
    /\ upstream = << >>
    /\ reply = << >>

\* no Responses passthrough stream is running: NewStreamIDSync()
SyncIdle ==
    /\ canonicalIDs = << >>
    /\ forwarded = << >>

\* the refresh goroutine has not been started
RefreshIdle ==
    /\ refreshPC = "off"
    /\ refreshDuration = 0
    /\ copilotToken = ""
    /\ attemptLog = << >>

\* no request has reached the rate limiter: NewRateLimiter(0, false)
LimiterIdle ==
    /\ limiter = [seconds |-> 0, wait |-> FALSE, lastRequest |-> << >>]
    /\ callers = << >>

\* no request has reached Auth; no API key is configured
AuthIdle ==
    /\ apiKeys = {}
    /\ authLog = << >>

\* no streaming request is being followed
ConnIdle ==
    conn = [path |-> "none", left |-> 0, gone |-> FALSE, lateReads |-> 0,
            running |-> FALSE]

\* no device-code login is under way
PollIdle ==
    poll = [pc |-> "off", interval |-> 0, pollInterval |-> 0, log |-> << >>,
            token |-> "", err |-> ""]

ShellIdle ==
    /\ now = 0
    /\ RefreshIdle
    /\ LimiterIdle
    /\ AuthIdle
    /\ ConnIdle
    /\ PollIdle

\* no translated stream is running
StreamIdle ==
    /\ kind = "none"
    /\ cs = NewAnthropicStreamState(FALSE)
    /\ rs = NewResponsesStreamState
    /\ out = << >>
    /\ events = << >>
    /\ phase = "idle"
    /\ script = << >>
    /\ pos = 0

-----------------------------------------------------------------------------
(* The handlers: readSSE feeding the machine, writeSSE to the client.      *)

\* streamChatToAnthropic, after readSSE has returned with error err
ChatAfterReadSSE(err) == IF err # Nil THEN <<StreamErrorEvent(err)>> ELSE << >>

\* ResponsesAfterReadSSE with the IsComplete check left out
ResponsesAfterReadSSE_NoCheck(s, err) ==
    IF err # Nil THEN <<StreamErrorEvent(err)>> ELSE << >>

\* streamResponsesToAnthropic, after readSSE has returned with error err
ResponsesAfterReadSSE(s, err) ==
    (IF err # Nil THEN <<StreamErrorEvent(err)>> ELSE << >>)
    \o (IF ~IsComplete(s) THEN <<StreamErrorEvent(ErrNoCompletion)>> ELSE << >>)

\* the callback of streamChatToAnthropic on one data line
ChatRead(chunk) ==
    /\ kind = "chat"
    /\ phase = "streaming"
    /\ pos' = pos + 1
    /\ IF ~chunk.valid
       THEN /\ out' = out \o ChatAfterReadSSE(ErrUnmarshal)
            /\ events' = << >>
            /\ phase' = "ended"
            /\ cs' = cs
       ELSE LET r == TranslateChunk(cs, chunk)
            IN  /\ cs' = r.s
                /\ events' = r.events
                /\ out' = out \o r.events
                /\ phase' = phase
    /\ UNCHANGED <<kind, rs, script>>
    /\ UNCHANGED <<requestVars, syncVars, shellVars>>

\* the upstream body of a chat request ends: "data: [DONE]", end of file, or
\* a failed read
ChatEnd ==
    /\ kind = "chat"
    /\ phase = "streaming"
    /\ pos = Len(script) \/ script = << >>
    /\ \E err \in {Nil, ErrRead} :
          out' = out \o ChatAfterReadSSE(err)
    /\ events' = << >>
    /\ phase' = "ended"
    /\ UNCHANGED <<kind, cs, rs, script, pos>>
    /\ UNCHANGED <<requestVars, syncVars, shellVars>>

\* the callback of streamResponsesToAnthropic on one data line
ResponsesRead(evt) ==
    /\ kind = "responses"
    /\ phase = "streaming"
    /\ pos' = pos + 1
    /\ LET r == TranslateEvent(rs, evt)
       IN  IF r.err
           THEN /\ out' = out \o ResponsesAfterReadSSE(rs, ErrUnmarshal)
                /\ events' = << >>
                /\ phase' = "ended"
                /\ rs' = rs
           ELSE /\ rs' = r.s
                /\ events' = r.events
                /\ out' = out \o r.events
                /\ phase' = phase
    /\ UNCHANGED <<kind, cs, script>>
    /\ UNCHANGED <<requestVars, syncVars, shellVars>>

\* the upstream body of a responses request ends
ResponsesEnd ==
    /\ kind = "responses"
    /\ phase = "streaming"
    /\ pos = Len(script) \/ script = << >>
    /\ \E err \in {Nil, ErrRead} :
          out' = out \o ResponsesAfterReadSSE(rs, err)
    /\ events' = << >>
    /\ phase' = "ended"
    /\ UNCHANGED <<kind, cs, rs, script, pos>>
    /\ UNCHANGED <<requestVars, syncVars, shellVars>>

-----------------------------------------------------------------------------
(* The free-running specification: the upstream may send any event of the  *)
(* pools in any order, and may end the body at any point.                  *)

Init ==
    /\ kind \in {"chat", "responses"}
    /\ \E isClaudeModel \in BOOLEAN :
          cs = NewAnthropicStreamState(kind = "chat" /\ isClaudeModel)
    /\ rs = NewResponsesStreamState
    /\ out = << >>
    /\ events = << >>
    /\ phase = "streaming"
    /\ script = << >>
    /\ pos = 0
    /\ RequestIdle
    /\ SyncIdle
    /\ ShellIdle

ChatReceive == \E chunk \in ChatChunks : pos < MaxEvents /\ ChatRead(chunk)

ResponsesReceive == \E evt \in ResponsesEvents : pos < MaxEvents /\ ResponsesRead(evt)

Next == ChatReceive \/ ChatEnd \/ ResponsesReceive \/ ResponsesEnd

Spec == Init /\ [][Next]_vars

-----------------------------------------------------------------------------
(* Scripted specifications: the upstream body is fixed when the request    *)
(* starts and is read to its end.                                          *)

\* every sequence over S of length at most n
ScriptsOver(S, n) == UNION {[1..k -> S] : k \in 0..n}

\* the chunks of the thinking-then-text scenario, in order
S3Input ==
    << Chunk(ChunkDelta("Hel", Nil, Nil, << >>), Nil),
       Chunk(ChunkDelta("lo", Nil, Nil, << >>), Nil),
       Chunk(ChunkDelta(Nil, "SIG", Nil, << >>), Nil),
       Chunk(ChunkDelta(Nil, Nil, " world", << >>), Nil),
       Chunk(ChunkDelta(Nil, Nil, Nil, << >>), "stop") >>

S3Chunks == {S3Input[i] : i \in DOMAIN S3Input}

InitChatScript ==
    /\ kind = "chat"
    /\ \E isClaudeModel \in BOOLEAN : cs = NewAnthropicStreamState(isClaudeModel)
    /\ rs = NewResponsesStreamState
    /\ out = << >>
    /\ events = << >>
    /\ phase = "streaming"
    /\ script \in ScriptsOver(S3Chunks, MaxScript)
    /\ pos = 0
    /\ RequestIdle
    /\ SyncIdle
    /\ ShellIdle

ChatReadScript == pos < Len(script) /\ ChatRead(script[pos + 1])

NextChatScript == ChatReadScript \/ ChatEnd

SpecChatScript == InitChatScript /\ [][NextChatScript]_vars

\* an arguments delta of one newline
NewlineDelta(outputIndex) ==
    ArgumentsEvent("response.function_call_arguments.delta", outputIndex, <<"\n">>)

\* bodies that open a tool call and then send a row of newline deltas for it
WhitespaceScripts ==
    { pre \o <<ItemEvent("response.output_item.added", oi, "function_call")>>
          \o mid \o [i \in 1..n |-> NewlineDelta(oi)] \o post :
        pre \in { << >>, <<ResponsesEvent("response.created")>>,
                  <<ResponsesEvent("response.created"),
                    TextEvent("response.output_text.delta", 0, 0, "c")>> },
        oi \in {0, 1},
        mid \in { << >>,
                  <<ArgumentsEvent("response.function_call_arguments.delta", 0, <<"{">>)>>,
                  <<ArgumentsEvent("response.function_call_arguments.delta", 1, <<"{">>)>>,
                  <<ItemEvent("response.output_item.done", 0, "function_call")>>,
                  <<TextEvent("response.output_text.delta", 1, 0, "c")>> },
        n \in 0..(WsLimit + MaxExtraDeltas),
        post \in { << >>, <<ResultEvent("response.completed", "completed", TRUE, "")>>,
                   <<ItemEvent("response.output_item.done", 0, "function_call")>> } }

InitWhitespace ==
    /\ kind = "responses"
    /\ cs = NewAnthropicStreamState(FALSE)
    /\ rs = NewResponsesStreamState
    /\ out = << >>
    /\ events = << >>
    /\ phase = "streaming"
    /\ script \in WhitespaceScripts
    /\ pos = 0
    /\ RequestIdle
    /\ SyncIdle
    /\ ShellIdle

ResponsesReadScript == pos < Len(script) /\ ResponsesRead(script[pos + 1])

NextWhitespace == ResponsesReadScript \/ ResponsesEnd

SpecWhitespace == InitWhitespace /\ [][NextWhitespace]_vars

-----------------------------------------------------------------------------
(* Reading the client's event log.                                         *)

\* the positions of `log` holding an event of the given type
Positions(log, event) == {i \in DOMAIN log : log[i].event = event}

Count(log, event) == Cardinality(Positions(log, event))

Max(S) == CHOOSE x \in S : \A y \in S : y <= x

\* the index of the content block that is open once the first n events of the
\* log have been delivered, or -1 when none is
OpenBlock(log, n) ==
    LET marks == {j \in 1..n : log[j].event \in {"content_block_start", "content_block_stop"}}
    IN  IF marks = {} THEN -1
        ELSE IF log[Max(marks)].event = "content_block_start"
        THEN log[Max(marks)].index
        ELSE -1

\* the stream has ended and the client has been sent no error event
EndedWithoutError == phase = "ended" /\ Count(out, "error") = 0


-----------------------------------------------------------------------------
(* Claims.                                                                 *)

\* C1: over the whole stream of a request, as many content_block_stop events
\* are emitted as content_block_start events, whatever the upstream sends.
C1_StartsEqualStops ==
    phase = "ended" =>
        Count(out, "content_block_start") = Count(out, "content_block_stop")

\* C2: a streaming response that ended without an error event carries exactly
\* one message_start, and it is the first event of the stream.
C2_OneMessageStartFirst ==
    (EndedWithoutError /\ out # << >>) =>
        /\ Count(out, "message_start") = 1
        /\ out[1].event = "message_start"

\* C3: a streaming response that ended without an error event carries exactly
\* one message_stop, as its last event, and exactly one message_delta, which
\* comes before the message_stop.
C3_OneMessageStopLast ==
    (EndedWithoutError /\ out # << >>) =>
        /\ Count(out, "message_stop") = 1
        /\ out[Len(out)].event = "message_stop"
        /\ Count(out, "message_delta") = 1
        /\ \A i \in Positions(out, "message_delta") :
              \A j \in Positions(out, "message_stop") : i < j

\* C4: at most one content block is open at any time: a content_block_start
\* is only ever emitted when no block is open, because the block that was
\* open has been closed by a content_block_stop carrying its index.
C4_AtMostOneOpenBlock ==
    \A i \in DOMAIN out :
        /\ out[i].event = "content_block_start" => OpenBlock(out, i - 1) = -1
        /\ out[i].event = "content_block_stop" => OpenBlock(out, i - 1) = out[i].index

\* C4 witness: a call found a block open, closed it and opened the next one,
\* the content_block_stop immediately before the content_block_start.
C4_Witness ==
    /\ OpenBlock(out, Len(out) - Len(events)) # -1
    /\ \E k \in 2..Len(events) :
          /\ events[k].event = "content_block_start"
          /\ events[k - 1] = ContentBlockStopEvent(OpenBlock(out, Len(out) - Len(events)))

\* C5: the index values of successive content_block_start events are
\* 0, 1, 2, ... in that order.
C5_ContiguousStartIndices ==
    \A i \in Positions(out, "content_block_start") :
        out[i].index = Cardinality({j \in Positions(out, "content_block_start") : j < i})

\* C5 witness: three blocks have been started.
C5_Witness == Count(out, "content_block_start") = 3

\* C6: once the whitespace guard has emitted its error event the stream is
\* over: nothing translated from a later upstream event follows it, and no
\* message_stop does.
C6_AbortTerminatesStream ==
    \A i \in DOMAIN out :
        out[i] = StreamErrorEvent(ErrExcessiveWhitespace) =>
            \A j \in (i + 1)..Len(out) : out[j].event = "error"

\* the characters sent to the client as arguments of the tool_use block b
RECURSIVE ArgumentsSent(_, _)
ArgumentsSent(log, b) ==
    IF log = << >> THEN << >>
    ELSE (IF Head(log).event = "content_block_delta" /\ Head(log).kind = "input_json_delta"
             /\ Head(log).index = b
          THEN Head(log).json ELSE << >>) \o ArgumentsSent(Tail(log), b)

\* the longest run of \r, \n, \t characters in a sequence of characters
RECURSIVE LongestWsRun(_, _, _)
LongestWsRun(chars, run, best) ==
    IF chars = << >> THEN best
    ELSE IF Head(chars) \in {"\r", "\n", "\t"}
    THEN LongestWsRun(Tail(chars), run + 1, IF run + 1 > best THEN run + 1 ELSE best)
    ELSE LongestWsRun(Tail(chars), 0, best)

\* C8: the arguments sent to the client for one tool call never hold more
\* than 20 consecutive \r, \n, \t characters.
C8_EmittedWhitespaceRunBounded ==
    kind = "responses" =>
        \A b \in 0..rs.blockIndex :
            LongestWsRun(ArgumentsSent(out, b), 0, 0) <= WsLimit

\* C9: a Responses-translated stream whose reader returned before any
\* completion event was processed ends with the synthetic error event, and
\* every ended stream holds a terminal event (message_stop or error).
C9_TerminalEventAlways ==
    (kind = "responses" /\ phase = "ended") =>
        /\ ~IsComplete(rs) => /\ out # << >>
                              /\ out[Len(out)] = StreamErrorEvent(ErrNoCompletion)
        /\ Count(out, "message_stop") + Count(out, "error") >= 1

\* C9 witness: a stream that delivered content and was cut before completion.
C9_Witness ==
    /\ kind = "responses" /\ phase = "ended" /\ ~IsComplete(rs)
    /\ Count(out, "content_block_delta") >= 1
    /\ out[Len(out)] = StreamErrorEvent(ErrNoCompletion)

\* what the client is to receive in the thinking-then-text scenario
S3Expected ==
    << MessageStartEvent,
       ContentBlockStartEvent(0, "thinking"),
       ContentBlockDeltaEvent(0, "thinking_delta", "Hel"),
       ContentBlockDeltaEvent(0, "thinking_delta", "lo"),
       ContentBlockDeltaEvent(0, "signature_delta", "SIG"),
       ContentBlockStopEvent(0),
       ContentBlockStartEvent(1, "text"),
       ContentBlockDeltaEvent(1, "text_delta", " world"),
       ContentBlockStopEvent(1),
       MessageDeltaEvent("end_turn"),
       MessageStopEvent >>

\* C10: for the upstream deltas reasoning_text "Hel", reasoning_text "lo",
\* reasoning_opaque "SIG", content " world", finish_reason "stop", read to the
\* end without a read failure, the client receives exactly the eleven events
\* of the scenario, in order.
C10_ThinkingThenTextScenario ==
    (script = S3Input /\ pos = Len(script) /\ Count(out, "error") = 0) =>
        out = S3Expected

\* C10 witness: the scenario's body has been read to its end.
C10_Witness ==
    script = S3Input /\ pos = Len(script) /\ phase = "ended" /\ out = S3Expected

\* the last n data lines read were newline deltas for outputIndex, and the
\* line before them was not
NewlineRow(outputIndex, n) ==
    /\ phase = "streaming"
    /\ pos > n
    /\ \A k \in (pos - n + 1)..pos : script[k] = NewlineDelta(outputIndex)
    /\ script[pos - n] # NewlineDelta(outputIndex)

\* C7: when 21 newline deltas in a row arrive for a tool call whose run of
\* whitespace was empty before them, the first 20 raise no error and the 21st,
\* arriving while a content block is open, yields content_block_stop for that
\* block followed by the excessive-whitespace error event.
C7_TwentyFirstNewlineAborts ==
    \A oi \in {0, 1} :
        /\ \A n \in 1..WsLimit : NewlineRow(oi, n) => Count(events, "error") = 0
        /\ (NewlineRow(oi, WsLimit + 1) /\ OpenBlock(out, Len(out) - Len(events)) # -1) =>
              events = << ContentBlockStopEvent(OpenBlock(out, Len(out) - Len(events))),
                          StreamErrorEvent(ErrExcessiveWhitespace) >>

\* C7 witness: the 21st newline delta of a row has just been handled, with the
\* tool_use block of its output index open when it arrived.
C7_Witness ==
    \E oi \in {0, 1} :
        /\ NewlineRow(oi, WsLimit + 1)
        /\ oi \in DOMAIN rs.toolCallBlocks
        /\ OpenBlock(out, Len(out) - Len(events)) = rs.toolCallBlocks[oi]

-----------------------------------------------------------------------------
(* The Responses passthrough and its stream ID synchronizer.  The data of  *)
(* an event is the part of its JSON the synchronizer reads or writes:      *)
(* whether it unmarshals, output_index, item.id and the top-level item_id. *)

\* events the passthrough forwards per stream
MaxForwarded == 3

\* a JSON field that is absent
Absent == [present |-> FALSE, value |-> ""]

Present(v) == [present |-> TRUE, value |-> v]

\* data of a Responses stream event
SyncData(parses, outputIndex, item, itemID) ==
    [parses |-> parses, output_index |-> outputIndex, item |-> item, item_id |-> itemID]

\* an int field of an unmarshalled struct: the zero value when the field is absent
IntField(f) == IF f.present THEN f.value ELSE 0

\* a string field of an unmarshalled struct: "" when the field is absent
StringField(f) == IF f.present THEN f.value ELSE ""

\* results randomBase36(16) may return
RandomSuffixes == {"0123456789abcdef", "zyxwvutsrqponmlk"}

\* fmt.Sprintf("oi_%d_%s", outputIndex, randomBase36(16))
SyntheticID(outputIndex, suffix) == "oi_" \o ToString(outputIndex) \o "_" \o suffix

\* raw["item"]["id"] = id, when raw["item"] is an object
PatchItem(data, id) ==
    IF data.item.present THEN [data EXCEPT !.item = Present(id)] ELSE data

processAdded(ids, data, suffix) ==
    IF ~data.parses THEN [ids |-> ids, data |-> data]
    ELSE LET outputIndex == IntField(data.output_index)
             upstreamID == StringField(data.item)
             id == IF upstreamID = "" THEN SyntheticID(outputIndex, suffix) ELSE upstreamID
         IN [ids |-> MapPut(ids, outputIndex, id),
             data |-> IF upstreamID = "" THEN PatchItem(data, id) ELSE data]

\* processDone, rewriting the id of a done event to the id that was written last
processDone_KeepUpstream(ids, data) ==
    [ids |-> ids, data |-> data]

processDone(ids, data) ==
    IF ~data.parses THEN [ids |-> ids, data |-> data]
    ELSE LET outputIndex == IntField(data.output_index)
         IN IF outputIndex \notin DOMAIN ids THEN [ids |-> ids, data |-> data]
            ELSE IF StringField(data.item) # ids[outputIndex]
                 THEN [ids |-> ids, data |-> PatchItem(data, ids[outputIndex])]
                 ELSE [ids |-> ids, data |-> data]

\* patchItemID, leaving every item_id as the upstream sent it
patchItemID_NoPatch(ids, data) ==
    [ids |-> ids, data |-> data]

patchItemID(ids, data) ==
    IF ~data.parses \/ ~data.output_index.present THEN [ids |-> ids, data |-> data]
    ELSE LET outputIndex == data.output_index.value
         IN IF outputIndex \notin DOMAIN ids \/ ids[outputIndex] = ""
            THEN [ids |-> ids, data |-> data]
            ELSE IF StringField(data.item_id) # ids[outputIndex]
                 THEN [ids |-> ids,
                       data |-> [data EXCEPT !.item_id = Present(ids[outputIndex])]]
                 ELSE [ids |-> ids, data |-> data]

\* StreamIDSync.Process
Process(ids, eventType, data, suffix) ==
    CASE eventType = "response.output_item.added" -> processAdded(ids, data, suffix)
      [] eventType = "response.output_item.done" -> processDone(ids, data)
      [] OTHER -> patchItemID(ids, data)

\* one upstream event of the passthrough stream
SyncEvent(type, data) == [type |-> type, data |-> data]

SyncOutputIndexes == {0, 1}

SyncItemIDs == {"", "a", "b"}

SyncEvents ==
    { SyncEvent(t, SyncData(TRUE, Present(i), Present(id), Absent)) :
        t \in {"response.output_item.added", "response.output_item.done"},
        i \in SyncOutputIndexes, id \in SyncItemIDs }
    \cup { SyncEvent(t, SyncData(TRUE, Present(0), Absent, Absent)) :
        t \in {"response.output_item.added", "response.output_item.done"} }
    \cup { SyncEvent("response.output_item.added", SyncData(FALSE, Present(0), Present("a"), Absent)) }
    \cup { SyncEvent("response.output_text.delta", SyncData(TRUE, Present(i), Absent, id)) :
        i \in SyncOutputIndexes, id \in {Absent, Present("a"), Present("b")} }
    \cup { SyncEvent("response.completed", SyncData(TRUE, Absent, Absent, Absent)),
           SyncEvent("response.in_progress", SyncData(TRUE, Absent, Absent, Present("a"))) }

\* streamResponsesPassthrough: the readSSE callback for one upstream event
PassthroughRead(evt) ==
    \E suffix \in RandomSuffixes :
        LET r == Process(canonicalIDs, evt.type, evt.data, suffix)
        IN /\ canonicalIDs' = r.ids
           /\ forwarded' = Append(forwarded,
                 [type |-> evt.type, received |-> evt.data, data |-> r.data])
           /\ UNCHANGED <<streamVars, requestVars, shellVars>>

InitSync ==
    /\ StreamIdle
    /\ RequestIdle
    /\ SyncIdle
    /\ ShellIdle

PassthroughReceive ==
    \E evt \in SyncEvents : Len(forwarded) < MaxForwarded /\ PassthroughRead(evt)

NextSync == PassthroughReceive

SpecSync == InitSync /\ [][NextSync]_vars

-----------------------------------------------------------------------------
(* Stream ID synchronizer: what the client receives.                       *)

IsAdded(e) == e.type = "response.output_item.added" /\ e.received.parses

IsDone(e) == e.type = "response.output_item.done" /\ e.received.parses

IsOther(e) ==
    /\ e.type \notin {"response.output_item.added", "response.output_item.done"}
    /\ e.received.parses

\* positions before n of the forwarded added events for output_index i
AddedBefore(log, n, i) ==
    { m \in 1..(n - 1) : IsAdded(log[m]) /\ IntField(log[m].received.output_index) = i }

\* the forwarded added event for output_index i that is in force at position n
LastAdded(log, n, i) == log[Max(AddedBefore(log, n, i))]

\* C11: a forwarded output_item.done for output_index i carries the item.id of the
\* output_item.added forwarded (last) for i, and that id is the upstream id of the
\* added event, or an oi_<i>_<16 chars> id when the upstream id was empty
C11_DoneCarriesAddedID ==
    \A n \in 1..Len(forwarded) :
        LET e == forwarded[n]
            i == IntField(e.received.output_index)
        IN (/\ IsDone(e)
            /\ e.data.item.present
            /\ AddedBefore(forwarded, n, i) # {}
            /\ LastAdded(forwarded, n, i).data.item.present)
           => LET a == LastAdded(forwarded, n, i)
              IN /\ e.data.item.value = a.data.item.value
                 /\ IF a.received.item.value # ""
                    THEN a.data.item.value = a.received.item.value
                    ELSE a.data.item.value
                            \in { SyntheticID(i, suffix) : suffix \in RandomSuffixes }

\* an added event without id was given a synthetic id and a later done event
\* with another id for the same output_index was forwarded
C11_Witness ==
    \E n \in 1..Len(forwarded) :
        LET e == forwarded[n]
            i == IntField(e.received.output_index)
        IN /\ IsDone(e)
           /\ e.received.item = Present("a")
           /\ AddedBefore(forwarded, n, i) # {}
           /\ LastAdded(forwarded, n, i).received.item = Present("")
           /\ e.data.item.value \in { SyntheticID(i, suffix) : suffix \in RandomSuffixes }

\* C12: an event other than output_item.added/done that carries item_id and
\* output_index is forwarded with item_id equal to the canonical id of that
\* output_index, and is forwarded unchanged when it already carried that id
C12_ItemIDIsCanonical ==
    \A n \in 1..Len(forwarded) :
        LET e == forwarded[n]
            i == IntField(e.received.output_index)
        IN (/\ IsOther(e)
            /\ e.received.output_index.present
            /\ e.received.item_id.present
            /\ AddedBefore(forwarded, n, i) # {}
            /\ LastAdded(forwarded, n, i).data.item.present)
           => LET canonicalID == LastAdded(forwarded, n, i).data.item.value
              IN /\ e.data.item_id = Present(canonicalID)
                 /\ e.received.item_id.value = canonicalID => e.data = e.received

\* a delta naming another item than the added event of its output_index was
\* forwarded, and it names the canonical id
C12_Witness ==
    \E n \in 1..Len(forwarded) :
        LET e == forwarded[n]
            i == IntField(e.received.output_index)
        IN /\ IsOther(e)
           /\ e.received.output_index.present
           /\ e.received.item_id = Present("b")
           /\ AddedBefore(forwarded, n, i) # {}
           /\ LastAdded(forwarded, n, i).data.item = Present("a")
           /\ e.data.item_id = Present("a")

-----------------------------------------------------------------------------
(* Anthropic requests.  A model id is the sequence of its "-" separated    *)
(* segments; a signature is a sequence of characters; other texts are      *)
(* strings.  A json.RawMessage that holds a string or an array of blocks   *)
(* is a record [kind, str, blocks]; a nil pointer is the empty sequence.   *)

\* json.RawMessage: nil, a JSON string, a JSON array of content blocks
NoContent == [kind |-> "nil", str |-> "", blocks |-> << >>]

StringContent(str) == [kind |-> "string", str |-> str, blocks |-> << >>]

ArrayContent(blocks) == [kind |-> "array", str |-> "", blocks |-> blocks]

\* ContentBlock: the flat union of the Anthropic content block types
ContentBlock(type, text, toolUseID, content, thinking, signature) ==
    [type |-> type, text |-> text, tool_use_id |-> toolUseID, content |-> content,
     thinking |-> thinking, signature |-> signature]

TextBlock(text) == ContentBlock("text", text, "", NoContent, "", << >>)

ImageBlock == ContentBlock("image", "", "", NoContent, "", << >>)

ToolUseBlock(id) == ContentBlock("tool_use", "", id, NoContent, "", << >>)

ToolResultBlock(toolUseID, content) ==
    ContentBlock("tool_result", "", toolUseID, content, "", << >>)

ThinkingBlock(thinking, signature) ==
    ContentBlock("thinking", "", "", NoContent, thinking, signature)

AnthropicMsg(role, content) == [role |-> role, content |-> content]

\* AnthropicRequest: the fields the normalizer, the router and the builders read
AnthropicRequest(model, system, tools, budgetTokens, messages) ==
    [model |-> model, system |-> system, tools |-> tools,
     budget_tokens |-> budgetTokens, messages |-> messages, max_tokens |-> 4096]

\* a request with another max_tokens; 0 is the value of a body without the field
WithMaxTokens(r, maxTokens) == [r EXCEPT !.max_tokens = maxTokens]

ParseMessageContent(raw) ==
    CASE raw.kind = "nil" -> << >>
      [] raw.kind = "string" -> <<TextBlock(raw.str)>>
      [] OTHER -> raw.blocks

\* the system prompt reduced to one text, as the sequence of its pieces
ParseSystemPrompt(system) == system

compactPrefix == "You are a helpful AI assistant tasked with summarizing conversations"

\* strings.HasPrefix(text, compactPrefix) on a text given by its pieces
isCompactRequest(r) ==
    LET systemText == ParseSystemPrompt(r.system)
    IN Len(systemText) > 0 /\ systemText[1] = compactPrefix

isWarmupRequest(r, betaHeader) == betaHeader # "" /\ Len(r.tools) = 0

\* applySmallModelIfNeeded with the compact test of the warm-up branch left out
applySmallModelIfNeeded_WarmupAlways(r, betaHeader, cfg) ==
    IF cfg.compactUseSmallModel /\ isCompactRequest(r)
    THEN [r EXCEPT !.model = cfg.smallModel]
    ELSE IF isWarmupRequest(r, betaHeader)
    THEN [r EXCEPT !.model = cfg.smallModel]
    ELSE r

applySmallModelIfNeeded(r, betaHeader, cfg) ==
    IF cfg.compactUseSmallModel /\ isCompactRequest(r)
    THEN [r EXCEPT !.model = cfg.smallModel]
    ELSE IF isWarmupRequest(r, betaHeader) /\ ~isCompactRequest(r)
    THEN [r EXCEPT !.model = cfg.smallModel]
    ELSE r

\* getToolResultText on string content
getToolResultText(raw) ==
    CASE raw.kind = "nil" -> ""
      [] raw.kind = "string" -> raw.str
      [] OTHER -> JoinLines([i \in 1..Len(SelectSeq(raw.blocks,
                       LAMBDA b : b.type = "text" /\ b.text # "")) |->
                       SelectSeq(raw.blocks, LAMBDA b : b.type = "text" /\ b.text # "")[i].text])

\* mergeTextIntoToolResult joining with a single newline
mergeTextIntoToolResult_OneNewline(tr, text) ==
    CASE tr.content.kind = "nil" -> [tr EXCEPT !.content = StringContent(text)]
      [] tr.content.kind = "array" ->
            [tr EXCEPT !.content = ArrayContent(Append(tr.content.blocks, TextBlock(text)))]
      [] OTHER ->
            LET existing == getToolResultText(tr.content)
            IN [tr EXCEPT !.content =
                    StringContent(IF existing # "" THEN existing \o "\n" \o text ELSE text)]

mergeTextIntoToolResult(tr, text) ==
    CASE tr.content.kind = "nil" -> [tr EXCEPT !.content = StringContent(text)]
      [] tr.content.kind = "array" ->
            [tr EXCEPT !.content = ArrayContent(Append(tr.content.blocks, TextBlock(text)))]
      [] OTHER ->
            LET existing == getToolResultText(tr.content)
            IN [tr EXCEPT !.content =
                    StringContent(IF existing # "" THEN existing \o "\n\n" \o text ELSE text)]

\* the indices of the blocks of a type, ascending
BlockIndices(blocks, type) ==
    SelectSeq([j \in 1..Len(blocks) |-> j], LAMBDA j : blocks[j].type = type)

\* a merge step that leaves the message as it is, text blocks included
mergeMessage_KeepText(msg) ==
    msg

\* a merge step that does not drop the text blocks it has merged
mergeMessage_NoFilter(msg) ==
    LET blocks == ParseMessageContent(msg.content)
        toolResults == BlockIndices(blocks, "tool_result")
        textBlocks == BlockIndices(blocks, "text")
        valid == \A j \in 1..Len(blocks) : blocks[j].type \in {"tool_result", "text"}
    IN IF msg.role # "user" THEN msg
       ELSE IF ~valid \/ Len(toolResults) = 0 \/ Len(textBlocks) = 0 THEN msg
       ELSE LET merged ==
                    IF Len(toolResults) = Len(textBlocks)
                    THEN [j \in 1..Len(blocks) |->
                            IF \E k \in 1..Len(toolResults) : toolResults[k] = j
                            THEN LET k == CHOOSE k \in 1..Len(toolResults) : toolResults[k] = j
                                 IN mergeTextIntoToolResult(blocks[j], blocks[textBlocks[k]].text)
                            ELSE blocks[j]]
                    ELSE LET lastTR == toolResults[Len(toolResults)]
                             texts == SelectSeq(textBlocks, LAMBDA txi : blocks[txi].text # "")
                             allText == [i \in 1..Len(texts) |-> blocks[texts[i]].text]
                         IN IF Len(allText) > 0
                            THEN [blocks EXCEPT ![lastTR] =
                                    mergeTextIntoToolResult(@, JoinLines(allText))]
                            ELSE blocks
                filtered == merged
            IN IF Len(filtered) > 0
               THEN [msg EXCEPT !.content = ArrayContent(filtered)]
               ELSE msg

\* the body of mergeToolResultBlocks' loop: one message
mergeMessage(msg) ==
    LET blocks == ParseMessageContent(msg.content)
        toolResults == BlockIndices(blocks, "tool_result")
        textBlocks == BlockIndices(blocks, "text")
        valid == \A j \in 1..Len(blocks) : blocks[j].type \in {"tool_result", "text"}
    IN IF msg.role # "user" THEN msg
       ELSE IF ~valid \/ Len(toolResults) = 0 \/ Len(textBlocks) = 0 THEN msg
       ELSE LET merged ==
                    IF Len(toolResults) = Len(textBlocks)
                    THEN [j \in 1..Len(blocks) |->
                            IF \E k \in 1..Len(toolResults) : toolResults[k] = j
                            THEN LET k == CHOOSE k \in 1..Len(toolResults) : toolResults[k] = j
                                 IN mergeTextIntoToolResult(blocks[j], blocks[textBlocks[k]].text)
                            ELSE blocks[j]]
                    ELSE LET lastTR == toolResults[Len(toolResults)]
                             texts == SelectSeq(textBlocks, LAMBDA txi : blocks[txi].text # "")
                             allText == [i \in 1..Len(texts) |-> blocks[texts[i]].text]
                         IN IF Len(allText) > 0
                            THEN [blocks EXCEPT ![lastTR] =
                                    mergeTextIntoToolResult(@, JoinLines(allText))]
                            ELSE blocks
                filtered == SelectSeq(merged, LAMBDA b : b.type # "text")
            IN IF Len(filtered) > 0
               THEN [msg EXCEPT !.content = ArrayContent(filtered)]
               ELSE msg

mergeToolResultBlocks(r) ==
    IF isCompactRequest(r) THEN r
    ELSE [r EXCEPT !.messages = [i \in 1..Len(r.messages) |-> mergeMessage(r.messages[i])]]

-----------------------------------------------------------------------------
(* The model registry and the backend router.  state.Global.FindModel is   *)
(* not part of the sources at hand: it returns the descriptor whose id is  *)
(* the argument, or nil.                                                   *)

\* model ids and their supported_endpoints
Registry ==
    (<<"claude", "opus", "4">> :> {"/v1/messages", "/chat/completions"})
    @@ (<<"claude", "haiku", "4.5">> :> {"/v1/messages", "/responses"})
    @@ (<<"claude", "sonnet", "4">> :> {"/chat/completions"})
    @@ (<<"gpt", "5">> :> {"/responses", "/chat/completions"})
    @@ (<<"gpt", "5", "mini">> :> {"/chat/completions"})
    @@ (<<"claude", "sonnet", "4.5">> :> {"/chat/completions"})

\* capabilities.supports.min_thinking_budget / max_thinking_budget of the
\* descriptors that give them; 0 is the value of an absent field
ThinkingBudgets ==
    (<<"claude", "sonnet", "4.5">> :> [min |-> 2048, max |-> 16000])
    @@ (<<"claude", "opus", "4">> :> [min |-> 1024, max |-> 32000])
    @@ (<<"gpt", "5", "mini">> :> [min |-> 0, max |-> 3000])

FindModel(id) ==
    IF id \in DOMAIN Registry
    THEN <<[id |-> id, supported_endpoints |-> Registry[id],
            min_thinking_budget |-> IF id \in DOMAIN ThinkingBudgets
                                    THEN ThinkingBudgets[id].min ELSE 0,
            max_thinking_budget |-> IF id \in DOMAIN ThinkingBudgets
                                    THEN ThinkingBudgets[id].max ELSE 0]>>
    ELSE << >>

isResponsesSupported(model) ==
    Len(model) > 0 /\ \E ep \in model[1].supported_endpoints : ep = "/responses"

\* endpoint paths of the registry that contain "/v1/messages"
MessagesPaths == {"/v1/messages"}

isMessagesSupported(model) ==
    Len(model) > 0 /\ \E ep \in model[1].supported_endpoints : ep \in MessagesPaths

\* a router that tries /responses before the Messages path
Backend_ResponsesFirst(r) ==
    LET model == FindModel(r.model)
    IN IF Len(model) > 0 /\ isResponsesSupported(model) THEN "responses"
       ELSE IF Len(model) > 0 /\ isMessagesSupported(model) THEN "messages"
       ELSE "chat_completions"

\* the backend the router of Messages picks for a request
Backend(r) ==
    LET model == FindModel(r.model)
    IN IF Len(model) > 0 /\ isMessagesSupported(model) THEN "messages"
       ELSE IF Len(model) > 0 /\ isResponsesSupported(model) THEN "responses"
       ELSE "chat_completions"

\* strings.Contains(strings.ToLower(model), "claude")
isClaude(model) == \E i \in 1..Len(model) : model[i] \in {"claude", "Claude"}

\* segments of 8 or more characters that are all digits
DateSegments == {"20250514", "20241022"}

HasPrefixSegments(model, prefix) ==
    Len(model) > Len(prefix) /\ SubSeq(model, 1, Len(prefix)) = prefix

normalizeModelName(model) ==
    IF ~isClaude(model) THEN model
    ELSE IF HasPrefixSegments(model, <<"claude", "sonnet", "4">>)
    THEN <<"claude", "sonnet", "4">>
    ELSE IF HasPrefixSegments(model, <<"claude", "opus", "4">>)
    THEN <<"claude", "opus", "4">>
    ELSE SelectSeq(model, LAMBDA part : part \notin DateSegments)

-----------------------------------------------------------------------------
(* The request builders.  The body of an upstream request is its model and *)
(* the conversation: `messages` on the native and the Chat Completions     *)
(* path, `input` on the Responses path.                                    *)

\* max_tokens is the max_tokens of a Chat Completions payload; the field is
\* left 0 on the other two paths.  initiator is the X-Initiator header, set
\* by the handler that sends the request
UpstreamRequest(backend, model, messages, input) ==
    [backend |-> backend, model |-> model, messages |-> messages, input |-> input,
     max_tokens |-> 0, initiator |-> ""]

\* strings.Contains(s, c) for a one-character c
Contains(s, c) == \E i \in 1..Len(s) : s[i] = c

\* index of the first occurrence of c in s
IndexOf(s, c) == CHOOSE i \in 1..Len(s) : s[i] = c /\ \A j \in 1..(i - 1) : s[j] # c

\* strings.SplitN(s, c, 2) for s that contains c
SplitN2(s, c) ==
    LET i == IndexOf(s, c)
    IN <<SubSeq(s, 1, i - 1), SubSeq(s, i + 1, Len(s))>>

\* strings.Join(parts, "")
RECURSIVE Concat(_)
Concat(parts) == IF Len(parts) = 0 THEN "" ELSE parts[1] \o Concat(Tail(parts))

\* the texts of a sequence of blocks
Texts(blocks) == [i \in 1..Len(blocks) |-> blocks[i].text]

\* the thinking filter of the native forwarder: the blocks that are kept
KeptByNativeFilter(b) ==
    ~(/\ b.type = "thinking"
      /\ \/ b.thinking = "" \/ b.thinking = "Thinking..."
         \/ b.signature = << >>
         \/ Contains(b.signature, "@"))

filterThinkingBlocksInMap(payload, r) ==
    [payload EXCEPT !.messages =
        [i \in 1..Len(payload.messages) |->
            IF payload.messages[i].role # "assistant" \/ i > Len(r.messages)
            THEN payload.messages[i]
            ELSE LET filtered == SelectSeq(ParseMessageContent(r.messages[i].content),
                                           KeptByNativeFilter)
                 IN [payload.messages[i] EXCEPT !.content =
                        ArrayContent(IF Len(filtered) = 0 THEN <<TextBlock("")>>
                                     ELSE filtered)]]]

\* handleWithMessagesAPI: the body sent to the native Messages API
handleWithMessagesAPI(r, rawBody) ==
    LET payload == filterThinkingBlocksInMap(rawBody, r)
    IN UpstreamRequest("messages", payload.model, payload.messages, << >>)

interleavedThinkingReminder ==
    "<system-reminder>you MUST follow interleaved_thinking_protocol</system-reminder>"

\* OpenAIMsg; a nil reasoning_text is "", a nil reasoning_opaque is << >>
OpenAIMsg(role, content, toolCallID, reasoningText, reasoningOpaque, toolCalls) ==
    [role |-> role, content |-> content, tool_call_id |-> toolCallID,
     reasoning_text |-> reasoningText, reasoning_opaque |-> reasoningOpaque,
     tool_calls |-> toolCalls]

\* OpenAIContentPart
ContentPart(type, text) == [type |-> type, text |-> text]

buildUserContent(blocks, addReminder) ==
    LET reminder == IF addReminder THEN <<interleavedThinkingReminder>> ELSE << >>
    IN IF \A i \in 1..Len(blocks) : blocks[i].type # "image"
       THEN StringContent(JoinLines(reminder \o
                Texts(SelectSeq(blocks, LAMBDA b : b.type = "text" /\ b.text # ""))))
       ELSE LET parts == SelectSeq(blocks, LAMBDA b : b.type \in {"text", "image"})
            IN ArrayContent(
                 [i \in 1..Len(reminder) |-> ContentPart("text", reminder[i])]
                 \o [i \in 1..Len(parts) |->
                       IF parts[i].type = "text" THEN ContentPart("text", parts[i].text)
                       ELSE ContentPart("image_url", "")])

translateUserMessage(blocks, addThinkingReminder) ==
    LET toolResults == SelectSeq(blocks, LAMBDA b : b.type = "tool_result")
        otherBlocks == SelectSeq(blocks, LAMBDA b : b.type # "tool_result")
    IN [i \in 1..Len(toolResults) |->
            OpenAIMsg("tool", StringContent(getToolResultText(toolResults[i].content)),
                      toolResults[i].tool_use_id, "", << >>, << >>)]
       \o (IF Len(otherBlocks) > 0
           THEN <<OpenAIMsg("user", buildUserContent(otherBlocks, addThinkingReminder),
                            "", "", << >>, << >>)>>
           ELSE IF addThinkingReminder /\ Len(toolResults) > 0
           THEN <<OpenAIMsg("user", StringContent(interleavedThinkingReminder),
                            "", "", << >>, << >>)>>
           ELSE << >>)

\* the thinking blocks translateAssistantMessage promotes
PromotedThinking(blocks, isClaudeModel) ==
    SelectSeq(blocks, LAMBDA b :
        /\ b.type = "thinking"
        /\ isClaudeModel =>
              /\ b.thinking # "" /\ b.thinking # "Thinking..."
              /\ ~Contains(b.signature, "@"))

translateAssistantMessage(blocks, isClaudeModel) ==
    LET promoted == PromotedThinking(blocks, isClaudeModel)
        withText == SelectSeq(promoted, LAMBDA b : b.thinking # "")
        withSignature == SelectSeq(promoted, LAMBDA b : b.signature # << >>)
        textParts == Texts(SelectSeq(blocks, LAMBDA b : b.type = "text"))
        toolUses == SelectSeq(blocks, LAMBDA b : b.type = "tool_use")
    IN <<OpenAIMsg("assistant",
                   IF Len(textParts) > 0 THEN StringContent(Concat(textParts)) ELSE NoContent,
                   "",
                   IF Len(withText) > 0 THEN withText[Len(withText)].thinking ELSE "",
                   IF Len(withSignature) > 0 THEN withSignature[Len(withSignature)].signature
                   ELSE << >>,
                   [i \in 1..Len(toolUses) |-> toolUses[i].tool_use_id])>>

\* the loop of translateToOpenAI over req.Messages
RECURSIVE translateMessagesToOpenAI(_, _, _, _)
translateMessagesToOpenAI(messages, isClaudeModel, needThinkingReminder, firstUserSeen) ==
    IF Len(messages) = 0 THEN << >>
    ELSE LET msg == Head(messages)
             blocks == ParseMessageContent(msg.content)
         IN IF msg.role = "user"
            THEN translateUserMessage(blocks, needThinkingReminder /\ ~firstUserSeen)
                 \o translateMessagesToOpenAI(Tail(messages), isClaudeModel,
                                              needThinkingReminder, TRUE)
            ELSE IF msg.role = "assistant"
            THEN translateAssistantMessage(blocks, isClaudeModel)
                 \o translateMessagesToOpenAI(Tail(messages), isClaudeModel,
                                              needThinkingReminder, firstUserSeen)
            ELSE translateMessagesToOpenAI(Tail(messages), isClaudeModel,
                                           needThinkingReminder, firstUserSeen)

\* the floor of the thinking budget when the descriptor gives no minimum
DefaultMinBudget == 1024

\* clampThinkingBudget without the raise to the minimum
clampThinkingBudget_NoFloor(modelID, budget, maxTokens) ==
    LET model == FindModel(modelID)
        mb == IF Len(model) > 0 THEN model[1].max_thinking_budget ELSE 0
        maxBudget == IF mb > 0 /\ mb < maxTokens - 1 THEN mb ELSE maxTokens - 1
    IN  IF budget > maxBudget THEN maxBudget ELSE budget

clampThinkingBudget(modelID, budget, maxTokens) ==
    LET model == FindModel(modelID)
        minBudget == IF Len(model) > 0 /\ model[1].min_thinking_budget > 0
                     THEN model[1].min_thinking_budget
                     ELSE DefaultMinBudget
        mb == IF Len(model) > 0 THEN model[1].max_thinking_budget ELSE 0
        maxBudget == IF mb > 0 /\ mb < maxTokens - 1 THEN mb ELSE maxTokens - 1
        raised == IF budget < minBudget THEN minBudget ELSE budget
    IN  IF raised > maxBudget THEN maxBudget ELSE raised

\* translateToOpenAI: model, conversation and max_tokens of the Chat
\* Completions payload
translateToOpenAI(r) ==
    LET model == normalizeModelName(r.model)
        isClaudeModel == isClaude(model)
        needThinkingReminder == isClaudeModel /\ r.budget_tokens > 0
    IN [UpstreamRequest("chat_completions", model,
            translateMessagesToOpenAI(r.messages, isClaudeModel, needThinkingReminder, FALSE),
            << >>)
        EXCEPT !.max_tokens = IF r.budget_tokens > 0
                              THEN clampThinkingBudget(r.model, r.budget_tokens, r.max_tokens)
                              ELSE r.max_tokens]

\* ResponsesInput; `content` holds Content of a message and Output of a
\* function_call_output
ResponsesInput(type, role, content, callID, id, encryptedContent, summary) ==
    [type |-> type, role |-> role, content |-> content, call_id |-> callID,
     id |-> id, encrypted_content |-> encryptedContent, summary |-> summary]

buildResponsesContent(blocks) ==
    IF \A i \in 1..Len(blocks) : blocks[i].type # "image"
    THEN StringContent(JoinLines(Texts(SelectSeq(blocks, LAMBDA b : b.type = "text"))))
    ELSE LET parts == SelectSeq(blocks, LAMBDA b : b.type \in {"text", "image"})
         IN ArrayContent([i \in 1..Len(parts) |->
                IF parts[i].type = "text" THEN ContentPart("input_text", parts[i].text)
                ELSE ContentPart("input_image", "")])

\* the JSON text of a raw array that holds no text and no image
RawArrayText == "[...]"

convertToolResultContentForResponses(raw) ==
    CASE raw.kind = "nil" -> StringContent("")
      [] raw.kind = "string" -> StringContent(raw.str)
      [] OTHER ->
            LET parts == SelectSeq(raw.blocks, LAMBDA b : b.type \in {"text", "image"})
            IN IF Len(parts) > 0
               THEN ArrayContent([i \in 1..Len(parts) |->
                       IF parts[i].type = "text" THEN ContentPart("input_text", parts[i].text)
                       ELSE ContentPart("input_image", "")])
               ELSE StringContent(RawArrayText)

\* the reasoning input item of a thinking block whose signature holds "@",
\* taking the id from the front of the signature
ReasoningInput_Swapped(b) ==
    LET parts == SplitN2(b.signature, "@")
    IN ResponsesInput("reasoning", "", NoContent, "", parts[1], parts[2],
           IF b.thinking # "" /\ b.thinking # "Thinking..." THEN <<b.thinking>> ELSE << >>)

\* the reasoning input item of a thinking block whose signature holds "@"
ReasoningInput(b) ==
    LET parts == SplitN2(b.signature, "@")
    IN ResponsesInput("reasoning", "", NoContent, "", parts[2], parts[1],
           IF b.thinking # "" /\ b.thinking # "Thinking..." THEN <<b.thinking>> ELSE << >>)

translateMsgToResponsesInput(role, blocks) ==
    IF role = "user"
    THEN LET toolResults == SelectSeq(blocks, LAMBDA b : b.type = "tool_result")
             otherBlocks == SelectSeq(blocks, LAMBDA b : b.type # "tool_result")
         IN [i \in 1..Len(toolResults) |->
                ResponsesInput("function_call_output", "",
                    convertToolResultContentForResponses(toolResults[i].content),
                    toolResults[i].tool_use_id, << >>, << >>, << >>)]
            \o (IF Len(otherBlocks) > 0
                THEN <<ResponsesInput("message", "user", buildResponsesContent(otherBlocks),
                                      "", << >>, << >>, << >>)>>
                ELSE << >>)
    ELSE IF role = "assistant"
    THEN LET itemBlocks == SelectSeq(blocks, LAMBDA b :
                 \/ b.type = "thinking" /\ Contains(b.signature, "@")
                 \/ b.type = "tool_use")
             textParts == Texts(SelectSeq(blocks, LAMBDA b : b.type = "text"))
         IN [i \in 1..Len(itemBlocks) |->
                IF itemBlocks[i].type = "thinking" THEN ReasoningInput(itemBlocks[i])
                ELSE ResponsesInput("function_call", "", NoContent,
                                    itemBlocks[i].tool_use_id, << >>, << >>, << >>)]
            \o (IF Len(textParts) > 0
                THEN <<ResponsesInput("message", "assistant",
                           ArrayContent(<<ContentPart("output_text", Concat(textParts))>>),
                           "", << >>, << >>, << >>)>>
                ELSE << >>)
    ELSE << >>

\* the loop of translateToResponses over req.Messages
RECURSIVE translateMessagesToResponses(_)
translateMessagesToResponses(messages) ==
    IF Len(messages) = 0 THEN << >>
    ELSE translateMsgToResponsesInput(Head(messages).role,
                                      ParseMessageContent(Head(messages).content))
         \o translateMessagesToResponses(Tail(messages))

\* translateToResponses: model and input of the Responses payload
translateToResponses(r) ==
    UpstreamRequest("responses", normalizeModelName(r.model), << >>,
                    translateMessagesToResponses(r.messages))

-----------------------------------------------------------------------------
(* Non-streaming Responses results.                                        *)

\* ResponsesOutput: one output item of a result
ResponsesOutput(type, summary, encryptedContent, id, texts, callID) ==
    [type |-> type, summary |-> summary, encrypted_content |-> encryptedContent,
     id |-> id, texts |-> texts, call_id |-> callID]

ReasoningOutput(summary, encryptedContent, id) ==
    ResponsesOutput("reasoning", summary, encryptedContent, id, << >>, "")

MessageOutput(texts) == ResponsesOutput("message", << >>, << >>, << >>, texts, "")

\* ResponsesResult; `reason` is incomplete_details.reason
ResponsesResult(output, outputText, status, reason) ==
    [output |-> output, output_text |-> outputText, status |-> status, reason |-> reason,
     usage |-> << >>]

\* a result whose usage field is present
ResultWithUsage(result, usage) == [result EXCEPT !.usage = <<usage>>]

\* the signature translateResponsesResultToAnthropic gives a reasoning item
ResultSignature(item) ==
    IF item.encrypted_content # << >>
    THEN IF item.id # << >> THEN item.encrypted_content \o <<"@">> \o item.id
         ELSE item.encrypted_content
    ELSE << >>

\* the content blocks of one output item
ResultBlocks(item) ==
    CASE item.type = "reasoning" ->
            <<ThinkingBlock(IF Len(item.summary) > 0 THEN JoinLines(item.summary)
                            ELSE "Thinking...",
                            ResultSignature(item))>>
      [] item.type = "function_call" -> <<ToolUseBlock(item.call_id)>>
      [] item.type = "message" ->
            LET texts == SelectSeq(item.texts, LAMBDA t : t # "")
            IN [i \in 1..Len(texts) |-> TextBlock(texts[i])]
      [] OTHER -> << >>

RECURSIVE ResultContent(_)
ResultContent(output) ==
    IF Len(output) = 0 THEN << >>
    ELSE ResultBlocks(Head(output)) \o ResultContent(Tail(output))

\* AnthropicResponse: content and stop_reason
translateResponsesResultToAnthropic(result) ==
    LET content == ResultContent(result.output)
    IN [content |-> IF Len(content) > 0 THEN content
                    ELSE IF result.output_text # "" THEN <<TextBlock(result.output_text)>>
                    ELSE <<TextBlock("")>>,
        stop_reason |-> ResponsesStopReason(
            [status |-> result.status,
             hasFuncCall |-> \E i \in 1..Len(result.output) :
                                 result.output[i].type = "function_call",
             reason |-> result.reason]),
        usage |-> ResponsesResultUsage(result.usage)]

-----------------------------------------------------------------------------
(* Initiator classification.  A text is a string; the <system-reminder>    *)
(* regions the regular expression finds in it are given by a table for the *)
(* texts that hold any.  A region is [marker, info]: marker says whether   *)
(* its trimmed content starts with __SUBAGENT_MARKER__, info is << >> when *)
(* json.Unmarshal of the rest fails, else <<SubagentInfo>>.                *)

SubagentInfo(sessionID, agentID, agentType) ==
    [session_id |-> sessionID, agent_id |-> agentID, agent_type |-> agentType]

Region(marker, info) == [marker |-> marker, info |-> info]

MarkerText ==
    "<system-reminder>__SUBAGENT_MARKER__{session_id:s1,agent_id:a1,agent_type:explore}</system-reminder>"

\* agent_type is missing from the JSON object
MarkerNoTypeText ==
    "<system-reminder>__SUBAGENT_MARKER__{session_id:s1,agent_id:a1}</system-reminder>"

\* a region whose JSON does not parse, followed by a valid one
MarkerSecondRegionText ==
    "<system-reminder>__SUBAGENT_MARKER__{oops</system-reminder><system-reminder> __SUBAGENT_MARKER__ {session_id:s2,agent_id:a2,agent_type:plan}</system-reminder>"

\* a reminder that is no marker
ReminderText == "<system-reminder>be brief</system-reminder>"

\* the marker outside of any <system-reminder> region
BareMarkerText == "__SUBAGENT_MARKER__{session_id:s1,agent_id:a1,agent_type:explore}"

\* systemReminderRe.FindAllStringSubmatch, TrimSpace, HasPrefix and
\* json.Unmarshal on the regions of a text
ReminderRegions(text) ==
    CASE text = MarkerText ->
            <<Region(TRUE, <<SubagentInfo("s1", "a1", "explore")>>)>>
      [] text = MarkerNoTypeText ->
            <<Region(TRUE, <<SubagentInfo("s1", "a1", "")>>)>>
      [] text = MarkerSecondRegionText ->
            <<Region(TRUE, << >>), Region(TRUE, <<SubagentInfo("s2", "a2", "plan")>>)>>
      [] text = ReminderText -> <<Region(FALSE, << >>)>>
      [] OTHER -> << >>

\* the SubagentInfo values a text block yields, in the order of its regions
BlockMarkers(b) ==
    IF b.type # "text" \/ b.text = "" THEN << >>
    ELSE LET valid == SelectSeq(ReminderRegions(b.text),
                         LAMBDA g : /\ g.marker
                                    /\ Len(g.info) = 1
                                    /\ g.info[1].session_id # ""
                                    /\ g.info[1].agent_id # ""
                                    /\ g.info[1].agent_type # "")
         IN [i \in 1..Len(valid) |-> valid[i].info[1]]

RECURSIVE FirstMarker(_)
FirstMarker(blocks) ==
    IF Len(blocks) = 0 THEN << >>
    ELSE IF Len(BlockMarkers(blocks[1])) > 0 THEN <<BlockMarkers(blocks[1])[1]>>
    ELSE FirstMarker(Tail(blocks))

\* detectSubagentMarker that scans every user message
detectSubagentMarker_AnyUser(messages) ==
    LET users == SelectSeq(messages, LAMBDA m : m.role = "user")
        found == SelectSeq(users,
                     LAMBDA m : Len(FirstMarker(ParseMessageContent(m.content))) > 0)
    IN IF Len(found) = 0 THEN << >>
       ELSE FirstMarker(ParseMessageContent(found[1].content))

\* detectSubagentMarker: << >> for nil, else <<SubagentInfo>>
detectSubagentMarker(messages) ==
    LET users == SelectSeq(messages, LAMBDA m : m.role = "user")
    IN IF Len(users) = 0 THEN << >>
       ELSE FirstMarker(ParseMessageContent(users[1].content))

isInitiatorAgent(messages) ==
    IF Len(messages) = 0 THEN FALSE
    ELSE LET last == messages[Len(messages)]
             blocks == ParseMessageContent(last.content)
         IN IF last.role # "user" THEN TRUE
            ELSE \A j \in 1..Len(blocks) : blocks[j].type = "tool_result"

\* SetInitiatorHeader: the value of X-Initiator
SetInitiatorHeader(isAgent) == IF isAgent THEN "agent" ELSE "user"

-----------------------------------------------------------------------------
(* POST /v1/messages.                                                      *)

\* Messages: normalizer, router and the request builder of the chosen backend
Messages(body, betaHeader) ==
    /\ Len(upstream) = 0
    /\ LET small == applySmallModelIfNeeded(body, betaHeader, config)
           subagent == detectSubagentMarker(small.messages)
           merged == mergeToolResultBlocks(small)
           backend == Backend(merged)
           forceAgent == subagent # << >>
           isAgent == forceAgent \/ isInitiatorAgent(merged.messages)
           payload == CASE backend = "messages" -> handleWithMessagesAPI(merged, body)
                        [] backend = "responses" -> translateToResponses(merged)
                        [] OTHER -> translateToOpenAI(merged)
       IN /\ inbound' = <<[body |-> body, beta |-> betaHeader]>>
          /\ req' = <<merged>>
          /\ upstream' = <<[payload EXCEPT !.initiator = SetInitiatorHeader(isAgent)]>>
    /\ UNCHANGED <<config, reply, streamVars, syncVars, shellVars>>

\* nonStreamResponsesToAnthropic: the response returned for an upstream result
NonStreamResponses(result) ==
    /\ Len(reply) = 0
    /\ reply' = <<[result |-> result,
                   response |-> translateResponsesResultToAnthropic(result)]>>
    /\ UNCHANGED <<config, inbound, req, upstream, streamVars, syncVars, shellVars>>

-----------------------------------------------------------------------------
(* Requests of the specifications.                                         *)

ModelIDs ==
    DOMAIN Registry \cup {<<"mystery">>, <<"claude", "sonnet", "4", "20250514">>,
                           <<"claude", "opus", "4", "20250514">>}

SmallModels == {<<"gpt", "5", "mini">>, <<"claude", "haiku", "4.5">>, <<"gpt", "5">>}

Configs ==
    [smallModel : SmallModels, compactUseSmallModel : BOOLEAN]

Systems ==
    { << >>,
      <<compactPrefix, " of coding sessions.">>,
      <<"You are Claude Code.">> }

ToolLists == { << >>, <<"Bash">> }

BudgetTokens == {0, 2048}

BetaHeaders == {"", "fake-2024-01-01"}

\* the user message of the merging scenario and what it becomes
S2Input ==
    AnthropicMsg("user", ArrayContent(
        <<TextBlock("A"), ToolResultBlock("t1", StringContent("R1")),
          TextBlock("B"), ToolResultBlock("t2", StringContent("R2"))>>))

S2Expected ==
    AnthropicMsg("user", ArrayContent(
        <<ToolResultBlock("t1", StringContent("R1\n\nA")),
          ToolResultBlock("t2", StringContent("R2\n\nB"))>>))

UserMessages ==
    { AnthropicMsg("user", StringContent("hi")),
      S2Input,
      AnthropicMsg("user", ArrayContent(
          <<ToolResultBlock("t1", StringContent("R1")), TextBlock("A")>>)),
      AnthropicMsg("user", ArrayContent(
          <<ToolResultBlock("t1", StringContent("R1")), TextBlock("A"), TextBlock("B")>>)),
      AnthropicMsg("user", ArrayContent(
          <<ToolResultBlock("t1", StringContent("")), TextBlock("A")>>)),
      AnthropicMsg("user", ArrayContent(
          <<ToolResultBlock("t1", ArrayContent(<<TextBlock("R1")>>)), TextBlock("A")>>)),
      AnthropicMsg("user", ArrayContent(
          <<ToolResultBlock("t1", NoContent), TextBlock("A")>>)),
      AnthropicMsg("user", ArrayContent(
          <<ToolResultBlock("t1", StringContent("R1")), TextBlock("A"), ImageBlock>>)),
      AnthropicMsg("user", ArrayContent(
          <<ToolResultBlock("t1", StringContent("R1"))>>)),
      AnthropicMsg("user", ArrayContent(<<TextBlock("A")>>)),
      AnthropicMsg("user", ArrayContent(
          <<ToolResultBlock("t1", StringContent("R1")),
            ToolResultBlock("t2", StringContent("R2")), TextBlock("")>>)) }

Signatures == { << >>, <<"S">>, <<"E", "@", "r">> }

AssistantMessages ==
    { AnthropicMsg("assistant", ArrayContent(<<ThinkingBlock(thinking, signature),
                                               TextBlock("ok")>>)) :
        thinking \in {"", "Thinking...", "plan"}, signature \in Signatures }
    \cup { AnthropicMsg("assistant", ArrayContent(<<TextBlock("ok"), ToolUseBlock("t1")>>)) }

Conversations ==
    { <<u>> : u \in UserMessages }
    \cup { <<AnthropicMsg("user", StringContent("hi")), a, u>> :
             a \in AssistantMessages,
             u \in { AnthropicMsg("user", StringContent("go on")),
                     AnthropicMsg("user", ArrayContent(
                         <<ToolResultBlock("t1", StringContent("R1")), TextBlock("A")>>)) } }

Bodies ==
    { AnthropicRequest(model, system, tools, budgetTokens, messages) :
        model \in ModelIDs, system \in Systems, tools \in ToolLists,
        budgetTokens \in BudgetTokens, messages \in Conversations }

InitMessages ==
    /\ StreamIdle
    /\ SyncIdle
    /\ ShellIdle
    /\ config \in Configs
    /\ inbound = << >>
    /\ req = << >>
    /\ upstream = << >>
    /\ reply = << >>

MessagesReceive ==
    \E body \in Bodies, betaHeader \in BetaHeaders : Messages(body, betaHeader)

NextMessages == MessagesReceive

SpecMessages == InitMessages /\ [][NextMessages]_vars

\* two turns of one conversation on the Responses backend: a non-streaming
\* result is translated for the client, which sends its content back
EncryptedContents == { << >>, <<"E">>, <<"E", "F">>, <<"E", "@", "F">> }

ReasoningIDs == { << >>, <<"r", "1">>, <<"r", "@", "1">> }

Summaries == { << >>, <<"plan">>, <<"plan", "check">> }

Results ==
    { ResponsesResult(<<ReasoningOutput(summary, encryptedContent, id)>> \o rest,
                      "", "completed", "") :
        summary \in Summaries, encryptedContent \in EncryptedContents,
        id \in ReasoningIDs, rest \in { << >>, <<MessageOutput(<<"ok">>)>> } }

\* the request of the next turn: the reply's content comes back as the
\* assistant message
NextTurnBody(model) ==
    AnthropicRequest(model, << >>, <<"Bash">>, 0,
        <<AnthropicMsg("user", StringContent("hi")),
          AnthropicMsg("assistant", ArrayContent(reply[1].response.content)),
          AnthropicMsg("user", StringContent("go on"))>>)

InitTurns ==
    /\ StreamIdle
    /\ SyncIdle
    /\ ShellIdle
    /\ RequestIdle

ResultReceive == \E result \in Results : NonStreamResponses(result)

NextTurn ==
    /\ Len(reply) = 1
    /\ \E model \in {<<"gpt", "5">>, <<"claude", "sonnet", "4">>, <<"claude", "opus", "4">>} :
           Messages(NextTurnBody(model), "")

NextTurns == ResultReceive \/ NextTurn

SpecTurns == InitTurns /\ [][NextTurns]_vars

-----------------------------------------------------------------------------
(* Requests: what is sent upstream.                                        *)

Sent == Len(upstream) = 1

\* number of occurrences of c in s
Occurrences(s, c) == Cardinality({ i \in 1..Len(s) : s[i] = c })

\* C13: a reasoning item {encrypted_content E, id I} whose signature holds
\* exactly one "@", none of it in E, reaches the client with signature E@I, and
\* the block sent back on the next turn becomes a reasoning input item with
\* encrypted_content E and id I
C13_ReasoningIdentityRoundTrip ==
    Len(reply) = 1 =>
        LET item == reply[1].result.output[1]
            block == reply[1].response.content[1]
        IN (/\ Occurrences(block.signature, "@") = 1
            /\ ~Contains(item.encrypted_content, "@"))
           => /\ block.type = "thinking"
              /\ block.signature = item.encrypted_content \o <<"@">> \o item.id
              /\ (Sent /\ upstream[1].backend = "responses")
                    => \E k \in 1..Len(upstream[1].input) :
                          /\ upstream[1].input[k].type = "reasoning"
                          /\ upstream[1].input[k].encrypted_content = item.encrypted_content
                          /\ upstream[1].input[k].id = item.id

\* the reasoning item {E, r1} went to the client as E@r1 and came back on the
\* Responses path
C13_Witness ==
    /\ Len(reply) = 1
    /\ reply[1].result.output[1].encrypted_content = <<"E">>
    /\ reply[1].result.output[1].id = <<"r", "1">>
    /\ reply[1].response.content[1].signature = <<"E", "@", "r", "1">>
    /\ Sent
    /\ upstream[1].backend = "responses"

\* the supported_endpoints of the descriptor of a model id, {} when unknown
EndpointsOf(id) == IF id \in DOMAIN Registry THEN Registry[id] ELSE {}

\* C14: the backend is the native Messages forwarder when the descriptor of the
\* request's model lists a Messages path, else the Responses translator when it
\* lists /responses, else (unknown models included) the Chat Completions
\* translator
C14_BackendIsFirstMatch ==
    Sent =>
        LET endpoints == EndpointsOf(req[1].model)
        IN upstream[1].backend =
              IF "/v1/messages" \in endpoints THEN "messages"
              ELSE IF "/responses" \in endpoints THEN "responses"
              ELSE "chat_completions"

\* a model that supports both a Messages path and /responses was served by the
\* native forwarder
C14_Witness ==
    /\ Sent
    /\ {"/v1/messages", "/responses"} \subseteq EndpointsOf(req[1].model)
    /\ upstream[1].backend = "messages"

\* the inbound request is compact
InboundCompact ==
    Len(inbound[1].body.system) > 0 /\ inbound[1].body.system[1] = compactPrefix

\* the inbound request is a warm-up
InboundWarmup == inbound[1].beta # "" /\ Len(inbound[1].body.tools) = 0

\* the normalizer's condition for replacing the model by smallModel
Rerouted ==
    \/ InboundCompact /\ config.compactUseSmallModel
    \/ InboundWarmup /\ ~InboundCompact

\* C15: when the normalizer replaced the model by smallModel, the model of the
\* request sent upstream is config.smallModel on every backend path
C15_SmallModelSentUpstream ==
    (Sent /\ Rerouted) => upstream[1].model = config.smallModel

\* C16: the user messages of the request sent upstream are the merged
\* messages, on the native Messages path as on the translated paths
C16_MergedMessagesSentUpstream ==
    Sent =>
        CASE upstream[1].backend = "messages" ->
                \A i \in 1..Len(req[1].messages) :
                    req[1].messages[i].role = "user"
                        => upstream[1].messages[i] = req[1].messages[i]
          [] upstream[1].backend = "responses" ->
                upstream[1].input = translateMessagesToResponses(req[1].messages)
          [] OTHER ->
                upstream[1].messages =
                    translateMessagesToOpenAI(req[1].messages, isClaude(upstream[1].model),
                        isClaude(upstream[1].model) /\ req[1].budget_tokens > 0, FALSE)

\* C17: the model of the normalized request is smallModel when the request is
\* compact with compactUseSmallModel enabled, or is a warm-up that is not
\* compact, and is the inbound model in every other case
C17_SmallModelIffCompactOrWarmup ==
    Sent =>
        req[1].model = IF Rerouted THEN config.smallModel ELSE inbound[1].body.model

\* a compact request with compactUseSmallModel disabled that is also a warm-up
\* kept a model other than smallModel
C17_Witness ==
    /\ Sent
    /\ InboundCompact
    /\ InboundWarmup
    /\ ~config.compactUseSmallModel
    /\ req[1].model = inbound[1].body.model
    /\ req[1].model # config.smallModel

\* the blocks of message i of the inbound request and of the normalized request
InboundBlocks(i) == ParseMessageContent(inbound[1].body.messages[i].content)

NormalizedBlocks(i) == ParseMessageContent(req[1].messages[i].content)

\* number of blocks of a type
CountBlocks(blocks, type) == Len(BlockIndices(blocks, type))

\* inbound user messages that hold a tool_result and a text block
ToolResultAndText(i) ==
    /\ inbound[1].body.messages[i].role = "user"
    /\ CountBlocks(InboundBlocks(i), "tool_result") >= 1
    /\ CountBlocks(InboundBlocks(i), "text") >= 1

\* the message holds tool_result and text blocks only
OnlyToolResultsAndText(i) ==
    \A j \in 1..Len(InboundBlocks(i)) : InboundBlocks(i)[j].type \in {"tool_result", "text"}

EquallyMany(i) ==
    /\ ToolResultAndText(i)
    /\ CountBlocks(InboundBlocks(i), "tool_result") = CountBlocks(InboundBlocks(i), "text")

\* the k-th tool_result and the k-th text block of inbound message i
KthToolResult(i, k) == InboundBlocks(i)[BlockIndices(InboundBlocks(i), "tool_result")[k]]

KthText(i, k) == InboundBlocks(i)[BlockIndices(InboundBlocks(i), "text")[k]].text

ValidThinking(thinking, signature) ==
    /\ thinking # "" /\ thinking # "Thinking..."
    /\ signature # << >>
    /\ ~Contains(signature, "@")

\* C20: every thinking block sent to a Claude-targeted upstream is valid: as a
\* thinking block of the native Messages body, and as the reasoning_text /
\* reasoning_opaque pair of a Chat Completions assistant message for a Claude
\* model
C20_ThinkingSentToClaudeIsValid ==
    Sent =>
        CASE upstream[1].backend = "messages" ->
                \A i \in 1..Len(upstream[1].messages) :
                    upstream[1].messages[i].role = "assistant" =>
                        \A j \in 1..Len(upstream[1].messages[i].content.blocks) :
                            LET b == upstream[1].messages[i].content.blocks[j]
                            IN b.type = "thinking" => ValidThinking(b.thinking, b.signature)
          [] upstream[1].backend = "chat_completions" /\ isClaude(upstream[1].model) ->
                \A k \in 1..Len(upstream[1].messages) :
                    LET m == upstream[1].messages[k]
                    IN (m.role = "assistant"
                        /\ (m.reasoning_text # "" \/ m.reasoning_opaque # << >>))
                       => ValidThinking(m.reasoning_text, m.reasoning_opaque)
          [] OTHER -> TRUE

-----------------------------------------------------------------------------
(* Non-streaming Chat Completions responses.                               *)

\* ChatCompletionResponse: choices is << >> or <<choice>>; usage is << >> when
\* the field is absent, else <<ChatCompletionUsage>>
ChatCompletionResponse(choices, usage) == [choices |-> choices, usage |-> usage]

\* ChatCompletionChoice with its ChatCompletionM; toolCalls are tool call ids
ChatCompletionChoice(reasoningText, reasoningOpaque, content, toolCalls, finishReason) ==
    [reasoning_text |-> reasoningText, reasoning_opaque |-> reasoningOpaque,
     content |-> content, tool_calls |-> toolCalls, finish_reason |-> finishReason]

\* translateToAnthropic: content, stop_reason and usage of the AnthropicResponse
translateToAnthropic(resp) ==
    LET content ==
            IF Len(resp.choices) > 0
            THEN LET msg == resp.choices[1]
                 IN  (IF msg.reasoning_text # Nil /\ msg.reasoning_text # ""
                      THEN <<ThinkingBlock(msg.reasoning_text, << >>)>>
                      ELSE IF msg.reasoning_opaque # << >>
                      THEN <<ThinkingBlock("Thinking...", msg.reasoning_opaque)>>
                      ELSE << >>)
                     \o (IF msg.content # Nil /\ msg.content # ""
                         THEN <<TextBlock(msg.content)>> ELSE << >>)
                     \o [i \in 1..Len(msg.tool_calls) |-> ToolUseBlock(msg.tool_calls[i])]
            ELSE << >>
    IN  [content |-> IF Len(content) = 0 THEN <<TextBlock("")>> ELSE content,
         stop_reason |-> IF Len(resp.choices) > 0
                         THEN mapStopReason(resp.choices[1].finish_reason)
                         ELSE "end_turn",
         usage |-> IF resp.usage # << >>
                   THEN LET u == resp.usage[1]
                        IN  IF u.details # << >>
                            THEN AnthropicUsage(u.prompt_tokens - u.details[1],
                                                u.completion_tokens, u.details[1])
                            ELSE AnthropicUsage(u.prompt_tokens, u.completion_tokens, 0)
                   ELSE AnthropicUsage(0, 0, 0)]

\* nonStreamChatToAnthropic: the response returned for an upstream completion
NonStreamChat(resp) ==
    /\ Len(reply) = 0
    /\ reply' = <<[result |-> resp, response |-> translateToAnthropic(resp)]>>
    /\ UNCHANGED <<config, inbound, req, upstream, streamVars, syncVars, shellVars>>

-----------------------------------------------------------------------------
(* Usage accounting: the upstream reports token counts on a non-streaming  *)
(* body, on the first chunk / response.created, and on the final chunk /   *)
(* response.completed.                                                     *)

\* the largest token count an upstream usage of the pools reports
MaxTokens == 3

\* token counts an upstream reports: cached_tokens absent, or any count up to
\* MaxTokens, a count above the prompt size included
TokenDetails == {<< >>} \cup {<<c>> : c \in 0..MaxTokens}

ChatUsages ==
    {ChatCompletionUsage(p, 1, d) : p \in {0, MaxTokens - 1}, d \in TokenDetails}

ResponsesUsages ==
    {ResponsesUsage(p, 1, d) : p \in {0, MaxTokens - 1}, d \in TokenDetails}

UsageChunks ==
    { Chunk(ChunkDelta(Nil, Nil, "c", << >>), Nil),
      Chunk(ChunkDelta(Nil, Nil, Nil, << >>), "stop"),
      UsageOnlyChunk }
    \cup {ChunkWithUsage(Chunk(ChunkDelta(Nil, Nil, "c", << >>), Nil), u) : u \in ChatUsages}
    \cup {ChunkWithUsage(Chunk(ChunkDelta(Nil, Nil, Nil, << >>), "stop"), u) :
             u \in {ChatCompletionUsage(MaxTokens - 1, 1, << >>)}}
    \cup {ChunkWithUsage(UsageOnlyChunk, u) :
             u \in {ChatCompletionUsage(MaxTokens - 1, 1, <<1>>)}}

UsageEvents ==
    { ResponsesEvent("response.created"),
      TextEvent("response.output_text.delta", 0, 0, "c"),
      ResultEvent("response.completed", "completed", FALSE, "") }
    \cup {EventWithUsage(ResponsesEvent("response.created"), u) : u \in ResponsesUsages}
    \cup {EventWithUsage(ResultEvent("response.completed", "completed", FALSE, ""), u) :
             u \in {ResponsesUsage(MaxTokens - 1, 1, <<1>>)}}

UsageCompletions ==
    {ChatCompletionResponse(choices, usage) :
        choices \in {<< >>, <<ChatCompletionChoice(Nil, << >>, "ok", << >>, "stop")>>,
                     <<ChatCompletionChoice("plan", << >>, Nil, <<"t1">>, "tool_calls")>>},
        usage \in {<< >>} \cup {<<u>> : u \in ChatUsages}}

UsageResults ==
    {ResponsesResult(<<MessageOutput(<<"ok">>)>>, "", "completed", "")}
    \cup {ResultWithUsage(ResponsesResult(<<MessageOutput(<<"ok">>)>>, "", "completed", ""), u) :
             u \in ResponsesUsages}

\* the length of the scripted upstream bodies
MaxUsageScript == 3

InitUsage ==
    /\ kind \in {"chat", "responses", "none"}
    /\ cs = NewAnthropicStreamState(FALSE)
    /\ rs = NewResponsesStreamState
    /\ out = << >>
    /\ events = << >>
    /\ phase = IF kind = "none" THEN "idle" ELSE "streaming"
    /\ script \in CASE kind = "chat" -> ScriptsOver(UsageChunks, MaxUsageScript)
                    [] kind = "responses" -> ScriptsOver(UsageEvents, MaxUsageScript)
                    [] OTHER -> {<< >>}
    /\ pos = 0
    /\ RequestIdle
    /\ SyncIdle
    /\ ShellIdle

NonStreamChatReceive ==
    \E resp \in UsageCompletions : kind = "none" /\ NonStreamChat(resp)

NonStreamResponsesReceive ==
    \E result \in UsageResults : kind = "none" /\ NonStreamResponses(result)

NextUsage ==
    \/ ChatReadScript
    \/ ChatEnd
    \/ ResponsesReadScript
    \/ ResponsesEnd
    \/ NonStreamChatReceive
    \/ NonStreamResponsesReceive

SpecUsage == InitUsage /\ [][NextUsage]_vars

\* the upstream data lines read so far that made the machine emit
\* message_start: the first chunk of a chat stream, every response.created of
\* a responses stream
StartLines ==
    IF kind = "chat"
    THEN IF pos > 0 /\ script[1].valid THEN <<script[1]>> ELSE << >>
    ELSE IF kind = "responses"
    THEN SelectSeq(SubSeq(script, 1, pos),
                   LAMBDA e : e.type = "response.created" /\ e.valid)
    ELSE << >>

\* the usage the upstream reported on a data line: << >>, or <<[input, cached]>>
\* with cached = 0 when the details are absent
LineUpstreamUsage(line) ==
    IF line.usage = << >> THEN << >>
    ELSE LET u == line.usage[1]
         IN  <<[input  |-> IF kind = "chat" THEN u.prompt_tokens ELSE u.input_tokens,
                cached |-> IF u.details # << >> THEN u.details[1] ELSE 0]>>

\* the usage the upstream reported on the non-streaming body
BodyUpstreamUsage ==
    IF reply = << >> \/ reply[1].result.usage = << >> THEN << >>
    ELSE LET u == reply[1].result.usage[1]
         IN  <<[input  |-> IF "prompt_tokens" \in DOMAIN u
                           THEN u.prompt_tokens ELSE u.input_tokens,
                cached |-> IF u.details # << >> THEN u.details[1] ELSE 0]>>

\* input, output and cache-read counts are non-negative and the cache-read
\* count does not exceed the input count the upstream reported
UsageInRange(usage, reported) ==
    /\ usage.input_tokens >= 0
    /\ usage.output_tokens >= 0
    /\ usage.cache_read_input_tokens >= 0
    /\ usage.cache_read_input_tokens <= (IF reported = << >> THEN 0 ELSE reported[1].input)

\* the positions of the message_start events written to the client
MessageStarts == SelectSeq([i \in 1..Len(out) |-> i], LAMBDA i : out[i].event = "message_start")

\* C21: the usage of every translated response (the non-streaming body, the
\* message_start and the message_delta of a translated stream) has
\* input_tokens >= 0, output_tokens >= 0, cache_read_input_tokens >= 0 and
\* cache_read_input_tokens at most the input token count the upstream reported
C21_UsageInRange ==
    /\ reply # << >> => UsageInRange(reply[1].response.usage, BodyUpstreamUsage)
    /\ \A k \in 1..Len(MessageStarts) :
          UsageInRange(out[MessageStarts[k]].usage[1], LineUpstreamUsage(StartLines[k]))
    /\ \A i \in 1..Len(out) :
          out[i].event = "message_delta" => out[i].usage[1].output_tokens >= 0

-----------------------------------------------------------------------------
(* The thinking budget of Chat Completions requests.                       *)

BudgetModels ==
    { <<"claude", "sonnet", "4">>, <<"claude", "sonnet", "4.5">>,
      <<"gpt", "5", "mini">>, <<"mystery">> }

ThinkingBudgetTokens == {0, 1, 1024, 2500, 20000}

MaxTokenValues == {0, 1000, 1025, 2049, 4096, 32000}

BudgetBodies ==
    { WithMaxTokens(
          AnthropicRequest(model, << >>, <<"Bash">>, budgetTokens,
                           <<AnthropicMsg("user", StringContent("hi"))>>),
          maxTokens) :
        model \in BudgetModels, budgetTokens \in ThinkingBudgetTokens,
        maxTokens \in MaxTokenValues }

InitBudget ==
    /\ StreamIdle
    /\ SyncIdle
    /\ ShellIdle
    /\ RequestIdle

BudgetReceive == \E body \in BudgetBodies : Messages(body, "")

NextBudget == BudgetReceive

SpecBudget == InitBudget /\ [][NextBudget]_vars

\* the lower bound of the clamp: the descriptor's minimum, 1024 when the
\* descriptor gives none or the model is unknown
LowerBound(modelID) ==
    LET model == FindModel(modelID)
    IN  IF Len(model) > 0 /\ model[1].min_thinking_budget > 0
        THEN model[1].min_thinking_budget
        ELSE DefaultMinBudget

\* the upper bound of the clamp: max_tokens - 1, or the descriptor's maximum
\* when that is smaller
UpperBound(modelID, maxTokens) ==
    LET model == FindModel(modelID)
    IN  IF Len(model) > 0 /\ model[1].max_thinking_budget > 0
           /\ model[1].max_thinking_budget < maxTokens - 1
        THEN model[1].max_thinking_budget
        ELSE maxTokens - 1

\* a Chat Completions request with a thinking budget has been sent
SentWithBudget ==
    Sent /\ upstream[1].backend = "chat_completions" /\ req[1].budget_tokens > 0

\* C22 as stated: with thinking.budget_tokens > 0 the max_tokens sent to Chat
\* Completions is never below the lower bound and never above max_tokens - 1
C22_BudgetWithinBounds ==
    SentWithBudget =>
        /\ upstream[1].max_tokens >= LowerBound(req[1].model)
        /\ upstream[1].max_tokens <= req[1].max_tokens - 1

\* C22: with thinking.budget_tokens > 0 the max_tokens sent to Chat
\* Completions is never above the upper bound (max_tokens - 1, or the
\* descriptor's maximum when smaller); when the lower bound does not exceed
\* the upper bound, the value is never below the lower bound and equals the
\* budget when the budget lies between the two; otherwise it is the upper bound
C22_BudgetClamped ==
    SentWithBudget =>
        LET lo == LowerBound(req[1].model)
            hi == UpperBound(req[1].model, req[1].max_tokens)
            sent == upstream[1].max_tokens
            budget == req[1].budget_tokens
        IN  /\ sent <= hi
            /\ sent <= req[1].max_tokens - 1
            /\ lo <= hi => /\ sent >= lo
                           /\ (lo <= budget /\ budget <= hi) => sent = budget
            /\ lo > hi => sent = hi

\* a budget below the descriptor's minimum has been raised to it
C22_Witness ==
    /\ SentWithBudget
    /\ req[1].budget_tokens < LowerBound(req[1].model)
    /\ LowerBound(req[1].model) <= UpperBound(req[1].model, req[1].max_tokens)
    /\ upstream[1].max_tokens = LowerBound(req[1].model)
    /\ FindModel(req[1].model) # << >>
    /\ FindModel(req[1].model)[1].min_thinking_budget > 0

-----------------------------------------------------------------------------
(* The credential refresh loop: StartTokenRefresh.                         *)

\* "Retry in 30 seconds on failure"
RetryDelay == 30

\* the shortest sleep between two refreshes
MinRefresh == 30

\* a refresh is due this many seconds before refresh_in runs out
RefreshMargin == 60

\* number of FetchCopilotToken calls a behaviour follows
MaxAttempts == 3

\* time.Duration(refreshIn-60) * time.Second, at least 30 s
RefreshDurationOf(refreshIn) ==
    IF refreshIn - RefreshMargin < MinRefresh THEN MinRefresh ELSE refreshIn - RefreshMargin

\* a CopilotTokenResponse, or the error FetchCopilotToken returns
CopilotTokenResponse(token, refreshIn) ==
    [ok |-> TRUE, token |-> token, refresh_in |-> refreshIn]

FetchError == [ok |-> FALSE, token |-> "", refresh_in |-> 0]

\* the loop body after FetchCopilotToken, leaving the loop on an error
AfterFetch_StopOnError(result) ==
    IF ~result.ok
    THEN [pc |-> "exited", token |-> copilotToken, duration |-> refreshDuration,
          slept |-> 0]
    ELSE [pc |-> "sleep", token |-> result.token,
          duration |-> RefreshDurationOf(result.refresh_in), slept |-> 0]

\* the loop body after FetchCopilotToken: where the loop goes on, the stored
\* bearer, refreshDuration, and the seconds slept before `continue`
AfterFetch(result) ==
    IF ~result.ok
    THEN [pc |-> "sleep", token |-> copilotToken, duration |-> refreshDuration,
          slept |-> RetryDelay]
    ELSE [pc |-> "sleep", token |-> result.token,
          duration |-> RefreshDurationOf(result.refresh_in), slept |-> 0]

\* "time.Sleep(refreshDuration)" at the top of the loop
RefreshSleep ==
    /\ refreshPC = "sleep"
    /\ now' = now + refreshDuration
    /\ refreshPC' = "fetch"
    /\ UNCHANGED <<refreshDuration, copilotToken, attemptLog>>
    /\ UNCHANGED <<streamVars, requestVars, syncVars, connVars, limiterVars, authVars, pollVars>>

\* FetchCopilotToken and the rest of the iteration: on an error the 30 s
\* sleep and `continue`, else SetCopilotToken and the new refreshDuration
Refetch(result) ==
    /\ refreshPC = "fetch"
    /\ LET next == AfterFetch(result)
       IN  /\ attemptLog' = Append(attemptLog,
                                   [at |-> now, ok |-> result.ok, token |-> result.token])
           /\ copilotToken' = next.token
           /\ refreshDuration' = next.duration
           /\ now' = now + next.slept
           /\ refreshPC' = next.pc
    /\ UNCHANGED <<streamVars, requestVars, syncVars, connVars, limiterVars, authVars, pollVars>>

RefreshIns == {0, 90, 1500}

FetchResults ==
    {FetchError} \cup {CopilotTokenResponse(t, r) : t \in {"t1", "t2"}, r \in RefreshIns}

\* login has stored the first bearer and called StartTokenRefresh(refreshIn)
InitRefresh ==
    /\ StreamIdle
    /\ RequestIdle
    /\ SyncIdle
    /\ LimiterIdle
    /\ AuthIdle
    /\ now = 0
    /\ ConnIdle
    /\ PollIdle
    /\ refreshPC = "sleep"
    /\ refreshDuration \in {RefreshDurationOf(r) : r \in RefreshIns}
    /\ copilotToken = "t0"
    /\ attemptLog = << >>

RefetchAttempt ==
    \E result \in FetchResults : Len(attemptLog) < MaxAttempts /\ Refetch(result)

NextRefresh == RefreshSleep \/ RefetchAttempt

SpecRefresh == InitRefresh /\ [][NextRefresh]_vars

\* C23: the refetch that follows a failed refetch starts 30 seconds after it
C23_RetryAfterThirtySeconds ==
    \A i \in 1..(Len(attemptLog) - 1) :
        ~attemptLog[i].ok => attemptLog[i + 1].at - attemptLog[i].at = RetryDelay

\* the bearer of the last successful refetch, or the bearer of the login
LastFetched(log) ==
    LET oks == {i \in 1..Len(log) : log[i].ok}
    IN  IF oks = {} THEN "t0" ELSE log[Max(oks)].token

\* C24: the refresh loop never leaves its cycle of sleeping and refetching,
\* a failed refetch leaves the stored bearer as it was, a successful one
\* stores the fetched bearer whatever number of failures preceded it, and
\* the loop always has a next step
C24_RefreshLoopNeverStops ==
    /\ refreshPC \in {"sleep", "fetch"}
    /\ copilotToken = LastFetched(attemptLog)
    /\ Len(attemptLog) < MaxAttempts => ENABLED NextRefresh

\* two failed refetches, then a successful one whose bearer is stored
C24_Witness ==
    /\ Len(attemptLog) = 3
    /\ ~attemptLog[1].ok /\ ~attemptLog[2].ok /\ attemptLog[3].ok
    /\ copilotToken = attemptLog[3].token
    /\ refreshPC = "sleep"

-----------------------------------------------------------------------------
(* The rate limiter: RateLimiter.Middleware.                               *)

\* number of concurrent requests a behaviour follows
MaxCallers == 3

\* the clock stops here
MaxTime == 5

\* NewRateLimiter(seconds, wait); lastRequest is << >> while it is the zero time
NewRateLimiter(seconds, wait) ==
    [seconds |-> seconds, wait |-> wait, lastRequest |-> << >>]

\* what the middleware did with a request: pc is "admitted" (passed to
\* next.ServeHTTP, lastRequest stamped `at`), "rejected" (429, Retry-After
\* of `retryAfter` seconds) or "sleeping" (time.Sleep until `wakeAt`)
Caller(pc, at, retryAfter, wakeAt) ==
    [pc |-> pc, at |-> at, retryAfter |-> retryAfter, wakeAt |-> wakeAt]

\* the critical section with the cooldown test left out
Enter_NoCooldown(rl, t) ==
    [rl |-> [rl EXCEPT !.lastRequest = <<t>>], caller |-> Caller("admitted", t, 0, 0)]

\* the critical section of Middleware entered at time t: from rl.mu.Lock()
\* to the rl.mu.Unlock() of the branch taken
Enter(rl, t) ==
    IF rl.lastRequest = << >>
    THEN [rl |-> [rl EXCEPT !.lastRequest = <<t>>], caller |-> Caller("admitted", t, 0, 0)]
    ELSE LET elapsed == t - rl.lastRequest[1]
             cooldown == rl.seconds
         IN  IF elapsed < cooldown
             THEN IF rl.wait
                  THEN [rl |-> rl,
                        caller |-> Caller("sleeping", 0, 0, t + (cooldown - elapsed))]
                  ELSE [rl |-> rl, caller |-> Caller("rejected", 0, cooldown - elapsed, 0)]
             ELSE [rl |-> [rl EXCEPT !.lastRequest = <<t>>],
                   caller |-> Caller("admitted", t, 0, 0)]

\* a request enters the middleware and leaves its critical section
LimiterArrive(r) ==
    /\ r \notin DOMAIN callers
    /\ LET e == Enter(limiter, now)
       IN  /\ limiter' = e.rl
           /\ callers' = (r :> e.caller) @@ callers
    /\ UNCHANGED <<now, refreshVars, authVars, streamVars, requestVars, syncVars, connVars, pollVars>>

\* wait mode: time.Sleep(remaining) is over; lastRequest is stamped under the
\* mutex and the request is passed on
LimiterWake(r) ==
    /\ r \in DOMAIN callers
    /\ callers[r].pc = "sleeping"
    /\ now >= callers[r].wakeAt
    /\ limiter' = [limiter EXCEPT !.lastRequest = <<now>>]
    /\ callers' = [callers EXCEPT ![r] = Caller("admitted", now, 0, 0)]
    /\ UNCHANGED <<now, refreshVars, authVars, streamVars, requestVars, syncVars, connVars, pollVars>>

\* one second passes
Tick ==
    /\ now < MaxTime
    /\ now' = now + 1
    /\ UNCHANGED <<refreshVars, limiterVars, authVars, streamVars, requestVars, syncVars, connVars, pollVars>>

LimitSeconds == {2, 3}

InitLimiter ==
    /\ StreamIdle
    /\ RequestIdle
    /\ SyncIdle
    /\ RefreshIdle
    /\ AuthIdle
    /\ now = 0
    /\ ConnIdle
    /\ PollIdle
    /\ \E seconds \in LimitSeconds, wait \in BOOLEAN :
          limiter = NewRateLimiter(seconds, wait)
    /\ callers = << >>

LimiterArrival == \E r \in 1..MaxCallers : LimiterArrive(r)

LimiterWakeUp == \E r \in 1..MaxCallers : LimiterWake(r)

NextLimiter == LimiterArrival \/ LimiterWakeUp \/ Tick

SpecLimiter == InitLimiter /\ [][NextLimiter]_vars

\* the requests passed to the inner handler
Admitted == {r \in DOMAIN callers : callers[r].pc = "admitted"}

\* any two requests passed to the inner handler were admitted at least
\* limiter.seconds apart
AdmittedApart ==
    \A r1, r2 \in Admitted :
        r1 # r2 => \/ callers[r1].at - callers[r2].at >= limiter.seconds
                   \/ callers[r2].at - callers[r1].at >= limiter.seconds

\* C25: in reject mode any two requests passed to the inner handler were
\* admitted at least N seconds apart; a rejected request carries a positive
\* Retry-After and the recorded last-request time is that of the latest
\* admitted request, so no rejected request has changed it
C25_RejectModeKeepsInterval ==
    ~limiter.wait =>
        /\ AdmittedApart
        /\ \A r \in DOMAIN callers :
              /\ callers[r].pc \in {"admitted", "rejected"}
              /\ callers[r].pc = "rejected" =>
                    callers[r].retryAfter > 0 /\ callers[r].retryAfter <= limiter.seconds
        /\ limiter.lastRequest =
              (IF Admitted = {} THEN << >> ELSE <<Max({callers[r].at : r \in Admitted})>>)

\* one request admitted, one rejected before the interval was over, one
\* admitted after it
C25_Witness ==
    /\ ~limiter.wait
    /\ Cardinality(Admitted) = 2
    /\ \E r \in DOMAIN callers : callers[r].pc = "rejected"

\* C26: in wait mode no request is rejected and any two requests passed to
\* the inner handler were admitted at least N seconds apart
C26_WaitModeKeepsInterval ==
    limiter.wait =>
        /\ \A r \in DOMAIN callers : callers[r].pc \in {"admitted", "sleeping"}
        /\ AdmittedApart

-----------------------------------------------------------------------------
(* The inbound API-key check: middleware.Auth.                             *)

\* the parts of an inbound request Auth reads; authorization is << >> when
\* the header is absent, else <<prefix, rest>> with prefix the first seven
\* characters of the header value
Request(method, path, xApiKey, authorization) ==
    [method |-> method, path |-> path, x_api_key |-> xApiKey,
     authorization |-> authorization]

extractAPIKey(r) ==
    IF r.x_api_key # "" THEN r.x_api_key
    ELSE IF r.authorization # << >> /\ r.authorization[1] = "Bearer "
    THEN r.authorization[2]
    ELSE ""

\* unauthorized(w)
Unauthorized ==
    [passed |-> FALSE, status |-> 401, www_authenticate |-> "Bearer realm=\"copilot-proxy-go\""]

\* next.ServeHTTP(w, r)
Passed == [passed |-> TRUE, status |-> 0, www_authenticate |-> ""]

\* Auth: what the middleware does with request r when keys are configured
Auth(r, keys) ==
    IF r.path = "/" \/ r.method = "OPTIONS" THEN Passed
    ELSE IF keys = {} THEN Passed
    ELSE LET apiKey == extractAPIKey(r)
         IN  IF apiKey = "" THEN Unauthorized
             ELSE IF apiKey \in keys THEN Passed
             ELSE Unauthorized

\* the middleware answers one request
AuthServe(r) ==
    /\ Len(authLog) = 0
    /\ authLog' = <<[request |-> r, outcome |-> Auth(r, apiKeys)]>>
    /\ UNCHANGED <<apiKeys, now, refreshVars, limiterVars, streamVars, requestVars, syncVars, connVars, pollVars>>

Methods == {"GET", "POST", "OPTIONS"}

Paths == {"/", "/v1/messages"}

KeyHeaders == {"", "k1", "bad"}

AuthorizationHeaders ==
    { << >>, <<"Bearer ", "k1">>, <<"Bearer ", "bad">>, <<"Bearer ", "">>,
      <<"Basic ", "k1">> }

Requests ==
    { Request(method, path, xApiKey, authorization) :
        method \in Methods, path \in Paths, xApiKey \in KeyHeaders,
        authorization \in AuthorizationHeaders }

\* config.GetAPIKeys(): trimmed, non-empty, without duplicates
KeySets == { {}, {"k1"}, {"k1", "k2"} }

InitAuth ==
    /\ StreamIdle
    /\ RequestIdle
    /\ SyncIdle
    /\ RefreshIdle
    /\ LimiterIdle
    /\ now = 0
    /\ ConnIdle
    /\ PollIdle
    /\ apiKeys \in KeySets
    /\ authLog = << >>

AuthReceive == \E r \in Requests : AuthServe(r)

NextAuth == AuthReceive

SpecAuth == InitAuth /\ [][NextAuth]_vars

\* the key a request presents: x-api-key, or the credential of
\* Authorization: Bearer when x-api-key is absent
PresentedKey(r) ==
    IF r.x_api_key # "" THEN r.x_api_key
    ELSE IF r.authorization # << >> /\ r.authorization[1] = "Bearer "
    THEN r.authorization[2]
    ELSE ""

\* C28: a request reaches the inner handlers if and only if it is GET / or
\* its method is OPTIONS, or no key is configured, or the key it presents is
\* one of the configured keys; every other request is answered 401 with a
\* WWW-Authenticate: Bearer header
C28_OnlyAuthorizedRequestsPass ==
    \A i \in 1..Len(authLog) :
        LET r == authLog[i].request
            o == authLog[i].outcome
            allowed == \/ (r.method = "GET" /\ r.path = "/")
                       \/ r.method = "OPTIONS"
                       \/ apiKeys = {}
                       \/ PresentedKey(r) \in apiKeys
        IN  /\ o.passed <=> allowed
            /\ ~o.passed => /\ o.status = 401
                            /\ o.www_authenticate = "Bearer realm=\"copilot-proxy-go\""

-----------------------------------------------------------------------------
(* Routing and the normalized model name.                                  *)

\* C29: the backend of a request is the one the router picks for the
\* descriptor of the normalized model name, so a model id with a date suffix
\* is routed like the id without it
C29_RoutedOnNormalizedName ==
    Sent =>
        upstream[1].backend =
            Backend([req[1] EXCEPT !.model = normalizeModelName(req[1].model)])

-----------------------------------------------------------------------------
(* Chat Completions chunks that carry a finish_reason.                     *)

\* the length of the scripted bodies
MaxFinishScript == 3

FinishChunks ==
    { Chunk(ChunkDelta("r", Nil, Nil, << >>), Nil),
      Chunk(ChunkDelta(Nil, Nil, "c", << >>), Nil),
      Chunk(ChunkDelta(Nil, Nil, Nil, <<TC0>>), Nil),
      Chunk(ChunkDelta(Nil, Nil, Nil, << >>), "stop"),
      Chunk(ChunkDelta(Nil, Nil, Nil, << >>), "length"),
      Chunk(ChunkDelta("r", Nil, Nil, << >>), "stop"),
      Chunk(ChunkDelta(Nil, "o", Nil, << >>), "stop"),
      Chunk(ChunkDelta(Nil, Nil, "c", << >>), "stop"),
      Chunk(ChunkDelta(Nil, Nil, Nil, <<TC0>>), "tool_calls") }

InitFinish ==
    /\ kind = "chat"
    /\ \E isClaudeModel \in BOOLEAN : cs = NewAnthropicStreamState(isClaudeModel)
    /\ rs = NewResponsesStreamState
    /\ out = << >>
    /\ events = << >>
    /\ phase = "streaming"
    /\ script \in ScriptsOver(FinishChunks, MaxFinishScript)
    /\ pos = 0
    /\ RequestIdle
    /\ SyncIdle
    /\ ShellIdle

NextFinish == ChatReadScript \/ ChatEnd

SpecFinish == InitFinish /\ [][NextFinish]_vars

\* the callback has just translated a chunk that carries a finish_reason
FinishChunkRead ==
    /\ kind = "chat" /\ phase = "streaming" /\ pos > 0
    /\ script[pos].valid /\ script[pos].hasChoices
    /\ script[pos].finishReason # Nil

\* C30: whenever a chunk carries a finish_reason, whatever else its delta
\* carries, the machine ends the events of that chunk with message_delta
\* (the mapped stop_reason) and message_stop, and no block is left open
C30_FinishReasonAlwaysApplied ==
    FinishChunkRead =>
        /\ Len(events) >= 2
        /\ events[Len(events) - 1].event = "message_delta"
        /\ events[Len(events) - 1].kind = mapStopReason(script[pos].finishReason)
        /\ events[Len(events)].event = "message_stop"
        /\ cs.openBlockType = ""

-----------------------------------------------------------------------------
(* Client disconnect on the streaming paths.                                *)
(*                                                                          *)
(* conn follows one streaming request: path is the handler that runs        *)
(* readSSE, left the number of data lines the upstream body still holds,    *)
(* gone whether the client has closed its connection, lateReads the number  *)
(* of data lines readSSE took from the upstream body after that, running    *)
(* whether readSSE has not returned yet.  The upstream requests are built   *)
(* with http.NewRequest, without the inbound request's context, so          *)
(* scanner.Scan() on resp.Body does not depend on the client's connection;  *)
(* the only thing a handler can notice is a failed write to the client.     *)

MaxUpstreamLines == 4

StreamingPaths == {"chat", "responses", "native", "passthrough"}

\* the callbacks of the translated streams return the error of writeSSE; the
\* passthrough callbacks drop the error of io.WriteString and return nil
ReturnsWriteError(path) == path \in {"chat", "responses"}

\* the passthrough callbacks write every data line; a translated line may
\* produce no event
AlwaysWrites(path) == path \in {"native", "passthrough"}

\* the client closes its connection while the stream is running
ClientDisconnect ==
    /\ conn.running
    /\ ~conn.gone
    /\ conn' = [conn EXCEPT !.gone = TRUE]
    /\ UNCHANGED <<streamVars, requestVars, syncVars>>
    /\ UNCHANGED <<now, refreshVars, limiterVars, authVars, pollVars>>

\* readSSE: scanner.Scan() yields one more data line and the callback runs;
\* emits says whether the callback writes to the client, writeFails whether
\* that write returns an error (possible only once the client is gone)
StreamLine(emits, writeFails) ==
    /\ conn.running
    /\ conn.left > 0
    /\ AlwaysWrites(conn.path) => emits
    /\ writeFails => (emits /\ conn.gone)
    /\ conn' = [conn EXCEPT
                  !.left = @ - 1,
                  !.lateReads = IF conn.gone THEN @ + 1 ELSE @,
                  !.running = ~(writeFails /\ ReturnsWriteError(conn.path))]
    /\ UNCHANGED <<streamVars, requestVars, syncVars>>
    /\ UNCHANGED <<now, refreshVars, limiterVars, authVars, pollVars>>

\* readSSE: the upstream body has ended, scanner.Scan() returns false
StreamEnd ==
    /\ conn.running
    /\ conn.left = 0
    /\ conn' = [conn EXCEPT !.running = FALSE]
    /\ UNCHANGED <<streamVars, requestVars, syncVars>>
    /\ UNCHANGED <<now, refreshVars, limiterVars, authVars, pollVars>>

InitCancel ==
    /\ StreamIdle
    /\ RequestIdle
    /\ SyncIdle
    /\ now = 0
    /\ RefreshIdle
    /\ LimiterIdle
    /\ AuthIdle
    /\ PollIdle
    /\ \E path \in StreamingPaths, n \in 1..MaxUpstreamLines :
         conn = [path |-> path, left |-> n, gone |-> FALSE, lateReads |-> 0,
                 running |-> TRUE]

StreamLineRead == \E emits \in BOOLEAN, writeFails \in BOOLEAN : StreamLine(emits, writeFails)

NextCancel == ClientDisconnect \/ StreamLineRead \/ StreamEnd

SpecCancel == InitCancel /\ [][NextCancel]_vars

\* C27: once the client has disconnected, the handler stops reading the
\* upstream body on every streaming path: at most the read that was under
\* way when the client left is completed
C27_DisconnectStopsUpstreamRead == conn.gone => conn.lateReads <= 1

-----------------------------------------------------------------------------
(* The X-Initiator header.                                                  *)

InitiatorModels == {<<"claude", "opus", "4">>, <<"gpt", "5">>, <<"claude", "sonnet", "4">>}

FirstUserMessages ==
    { AnthropicMsg("user", StringContent("hi")),
      AnthropicMsg("user", StringContent(MarkerText)),
      AnthropicMsg("user", ArrayContent(
          <<TextBlock(ReminderText), TextBlock(MarkerSecondRegionText)>>)),
      AnthropicMsg("user", ArrayContent(<<TextBlock(MarkerNoTypeText)>>)),
      AnthropicMsg("user", ArrayContent(<<TextBlock(BareMarkerText)>>)),
      AnthropicMsg("user", ArrayContent(
          <<ToolResultBlock("t0", StringContent("R0")), TextBlock(MarkerText)>>)),
      AnthropicMsg("user", ArrayContent(
          <<ToolResultBlock("t0", StringContent(MarkerText))>>)) }

LastMessages ==
    { AnthropicMsg("assistant", ArrayContent(<<TextBlock("ok")>>)),
      AnthropicMsg("user", StringContent("go on")),
      AnthropicMsg("user", StringContent(MarkerText)),
      AnthropicMsg("user", ArrayContent(<< >>)),
      AnthropicMsg("user", ArrayContent(
          <<ToolResultBlock("t1", StringContent("R1"))>>)),
      AnthropicMsg("user", ArrayContent(
          <<ToolResultBlock("t1", StringContent("R1")), TextBlock("A")>>)),
      AnthropicMsg("user", ArrayContent(
          <<TextBlock("A"), ToolResultBlock("t1", StringContent("R1")), TextBlock("B")>>)),
      AnthropicMsg("user", ArrayContent(
          <<ToolResultBlock("t1", StringContent("R1")), ImageBlock>>)) }

InitiatorConversations ==
    { << >> }
    \cup { <<u>> : u \in FirstUserMessages }
    \cup { <<u>> : u \in LastMessages }
    \cup { <<u, AnthropicMsg("assistant", ArrayContent(<<TextBlock("ok"), ToolUseBlock("t1")>>)), l>> :
             u \in FirstUserMessages, l \in LastMessages }
    \cup { <<AnthropicMsg("assistant", ArrayContent(<<TextBlock("ok")>>)), u>> :
             u \in FirstUserMessages }

InitiatorBodies ==
    { AnthropicRequest(model, system, <<"Bash">>, 0, messages) :
        model \in InitiatorModels,
        system \in { << >>, <<compactPrefix, " of coding sessions.">> },
        messages \in InitiatorConversations }

InitInitiator ==
    /\ StreamIdle
    /\ SyncIdle
    /\ ShellIdle
    /\ config \in Configs
    /\ inbound = << >>
    /\ req = << >>
    /\ upstream = << >>
    /\ reply = << >>

InitiatorReceive == \E body \in InitiatorBodies : Messages(body, "")

NextInitiator == InitiatorReceive

SpecInitiator == InitInitiator /\ [][NextInitiator]_vars

\* a text block of the message holds a <system-reminder> region that starts
\* with the marker and whose JSON gives three non-empty fields
HoldsValidMarker(msg) ==
    \E b \in { ParseMessageContent(msg.content)[j] :
                   j \in 1..Len(ParseMessageContent(msg.content)) } :
        /\ b.type = "text"
        /\ \E i \in 1..Len(ReminderRegions(b.text)) :
              LET g == ReminderRegions(b.text)[i]
              IN /\ g.marker
                 /\ Len(g.info) = 1
                 /\ g.info[1].session_id # ""
                 /\ g.info[1].agent_id # ""
                 /\ g.info[1].agent_type # ""

\* the first user message of the request received holds a valid marker
MarkerFound ==
    LET messages == inbound[1].body.messages
    IN \E i \in 1..Len(messages) :
          /\ messages[i].role = "user"
          /\ \A j \in 1..(i - 1) : messages[j].role # "user"
          /\ HoldsValidMarker(messages[i])

\* the last message of the normalized request is not a user message
LastNotUser ==
    LET messages == req[1].messages
    IN Len(messages) > 0 /\ messages[Len(messages)].role # "user"

\* the last message of the normalized request is a user message in which
\* every block is a tool_result
LastOnlyToolResults ==
    LET messages == req[1].messages
    IN /\ Len(messages) > 0
       /\ messages[Len(messages)].role = "user"
       /\ \A j \in 1..Len(ParseMessageContent(messages[Len(messages)].content)) :
             ParseMessageContent(messages[Len(messages)].content)[j].type = "tool_result"

\* C31: the X-Initiator header sent upstream is "agent" if and only if a
\* valid sub-agent marker was found in the first user message, or the last
\* message of the normalized request is not a user message, or it is a user
\* message in which every block is a tool_result; otherwise it is "user"
C31_InitiatorHeader ==
    Sent =>
        /\ upstream[1].initiator \in {"agent", "user"}
        /\ upstream[1].initiator = "agent" <=>
              (MarkerFound \/ LastNotUser \/ LastOnlyToolResults)

\* a marker in the first user message forces "agent" although the last
\* message is a user message with text
C31_Witness ==
    /\ Sent
    /\ MarkerFound
    /\ ~LastNotUser
    /\ ~LastOnlyToolResults
    /\ upstream[1].initiator = "agent"

\* the request received is not compact and its last message is a user
\* message made of tool_result and text blocks only, at least one of each
LastMixesToolResultAndText ==
    LET messages == inbound[1].body.messages
        blocks == ParseMessageContent(messages[Len(messages)].content)
    IN /\ ~isCompactRequest(inbound[1].body)
       /\ Len(messages) > 0
       /\ messages[Len(messages)].role = "user"
       /\ \A j \in 1..Len(blocks) : blocks[j].type \in {"tool_result", "text"}
       /\ \E j \in 1..Len(blocks) : blocks[j].type = "tool_result"
       /\ \E j \in 1..Len(blocks) : blocks[j].type = "text"

\* C39: the initiator is classified on the messages after tool-result + text
\* merging: a non-compact request whose last message is a user message made
\* of tool_result and text blocks only, at least one of each, is sent with
\* X-Initiator "agent" on every backend
C39_MergedToolResultIsAgent ==
    (Sent /\ LastMixesToolResultAndText) => upstream[1].initiator = "agent"

\* such a request on the native Messages backend, with no marker in it
C39_Witness ==
    /\ Sent
    /\ LastMixesToolResultAndText
    /\ ~MarkerFound
    /\ upstream[1].backend = "messages"
    /\ upstream[1].initiator = "agent"

-----------------------------------------------------------------------------
(* Merging twice.                                                           *)

\* C38: tool-result + text merging is idempotent: mergeToolResultBlocks
\* applied to the request it has produced leaves every message unchanged
C38_MergeIdempotent ==
    Sent => mergeToolResultBlocks(req[1]).messages = req[1].messages

\* a request in which the merge has rewritten a message
C38_Witness ==
    /\ Sent
    /\ req[1].messages # inbound[1].body.messages
    /\ mergeToolResultBlocks(req[1]).messages = req[1].messages

-----------------------------------------------------------------------------
(* Output items of a Responses stream: scripted upstream bodies made of    *)
(* the events of function_call and reasoning items.                        *)

MaxItemScript == 4

ItemEvents ==
    { ItemEvent("response.output_item.added", 0, "function_call"),
      ArgumentsEvent("response.function_call_arguments.delta", 0, <<"{", "}">>),
      ArgumentsEvent("response.function_call_arguments.delta", 0, << >>),
      ArgumentsEvent("response.function_call_arguments.done", 0, <<"{", "}">>),
      ArgumentsEvent("response.function_call_arguments.done", 0, << >>),
      ItemEvent("response.output_item.done", 0, "function_call"),
      TextEvent("response.reasoning_summary_text.delta", 0, 0, "a"),
      TextEvent("response.reasoning_summary_text.done", 0, 0, "a"),
      ReasoningDone(0, <<"a">>, "E", "r1"),
      TextEvent("response.output_text.delta", 1, 0, "c"),
      ResultEvent("response.completed", "completed", FALSE, "") }

InitItems ==
    /\ kind = "responses"
    /\ cs = NewAnthropicStreamState(FALSE)
    /\ rs = NewResponsesStreamState
    /\ out = << >>
    /\ events = << >>
    /\ phase = "streaming"
    /\ script \in ScriptsOver(ItemEvents, MaxItemScript)
    /\ pos = 0
    /\ RequestIdle
    /\ SyncIdle
    /\ ShellIdle

NextItems == ResponsesReadScript \/ ResponsesEnd

SpecItems == InitItems /\ [][NextItems]_vars

\* the event the callback has just handled is of the given type
JustRead(type) ==
    /\ pos > 0
    /\ phase = "streaming"
    /\ script[pos].type = type

\* position of the last output_item.added of a function_call with the
\* output_index of the event just read, among the events before it; 0 if none
LastToolAdded ==
    LET added == { j \in 1..(pos - 1) :
                     /\ script[j].type = "response.output_item.added"
                     /\ script[j].item.type = "function_call"
                     /\ script[j].outputIndex = script[pos].outputIndex }
    IN IF added = {} THEN 0 ELSE CHOOSE j \in added : \A k \in added : k <= j

\* an arguments delta has been received for the tool_use block of the event
\* just read
DeltaReceived ==
    \E j \in (LastToolAdded + 1)..(pos - 1) :
        /\ script[j].type = "response.function_call_arguments.delta"
        /\ script[j].outputIndex = script[pos].outputIndex

\* the partial_json values of a sequence of events, joined
RECURSIVE JoinJSON(_)
JoinJSON(log) == IF Len(log) = 0 THEN << >> ELSE log[1].json \o JoinJSON(Tail(log))

\* what the client has received as the input of the tool_use block of the
\* event just read
DeliveredArguments ==
    JoinJSON(SelectSeq(out,
        LAMBDA e : /\ e.kind = "input_json_delta"
                   /\ e.index = rs.toolCallBlocks[script[pos].outputIndex]))

\* what the upstream has sent as deltas for that block
RECURSIVE JoinArguments(_)
JoinArguments(evts) ==
    IF Len(evts) = 0 THEN << >> ELSE evts[1].arguments \o JoinArguments(Tail(evts))

UpstreamArguments ==
    JoinArguments(SelectSeq(SubSeq(script, LastToolAdded + 1, pos - 1),
        LAMBDA e : /\ e.type = "response.function_call_arguments.delta"
                   /\ e.outputIndex = script[pos].outputIndex))

\* the upstream's deltas, when it sent any, add up to its final arguments, and
\* this is the only "done" event of the block
ConsistentArguments ==
    /\ DeltaReceived => UpstreamArguments = script[pos].arguments
    /\ \A j \in (LastToolAdded + 1)..(pos - 1) :
          ~(/\ script[j].type = "response.function_call_arguments.done"
            /\ script[j].outputIndex = script[pos].outputIndex)

\* C32: on response.function_call_arguments.done for an output_index that
\* has a tool_use block, exactly one input_json_delta carrying the final
\* arguments is emitted on that block if no arguments delta was received for
\* it and the final arguments are non-empty; otherwise nothing is emitted.
\* When the upstream's deltas add up to its final arguments, the client has
\* then received exactly the final arguments for that block
C32_TrailingArgumentsOnce ==
    (JustRead("response.function_call_arguments.done") /\ LastToolAdded > 0) =>
        /\ events = IF ~DeltaReceived /\ script[pos].arguments # << >>
                    THEN <<InputJSONDeltaEvent(rs.toolCallBlocks[script[pos].outputIndex],
                                               script[pos].arguments)>>
                    ELSE << >>
        /\ ConsistentArguments => DeliveredArguments = script[pos].arguments

\* the final arguments are written once the deltas have already carried them:
\* nothing is emitted
C32_Witness ==
    /\ JustRead("response.function_call_arguments.done")
    /\ LastToolAdded > 0
    /\ DeltaReceived
    /\ script[pos].arguments # << >>
    /\ events = << >>
    /\ \E i \in DOMAIN out : out[i].kind = "input_json_delta" /\ out[i].json = script[pos].arguments

-----------------------------------------------------------------------------
(* Reasoning items.                                                         *)

IsSummaryEvent(e) ==
    e.type \in {"response.reasoning_summary_text.delta",
                "response.reasoning_summary_text.done"}

IsReasoningDone(e) ==
    e.type = "response.output_item.done" /\ e.item.type = "reasoning"

\* every summary event read so far has been followed by the
\* response.output_item.done of its reasoning item
ReasoningItemsDone ==
    \A j \in 1..pos :
        IsSummaryEvent(script[j]) =>
            \E k \in (j + 1)..pos :
                IsReasoningDone(script[k]) /\ script[k].outputIndex = script[j].outputIndex

\* the reasoning items the upstream has sent so far
ReasoningItems == { k \in 1..pos : IsReasoningDone(script[k]) }

\* the thinking blocks opened in the client stream
ThinkingBlocks ==
    { i \in DOMAIN out : out[i].event = "content_block_start" /\ out[i].kind = "thinking" }

\* C35: each upstream reasoning output item gives rise to exactly one
\* thinking block in the client stream, whether its summary arrived through
\* response.reasoning_summary_text.delta/done events followed by
\* response.output_item.done or only response.output_item.done arrived
C35_OneThinkingBlockPerItem ==
    (kind = "responses" /\ script # << >> /\ ReasoningItemsDone) =>
        Cardinality(ThinkingBlocks) = Cardinality(ReasoningItems)

-----------------------------------------------------------------------------
(* Deltas and the open block.                                               *)

\* C34: in both stream machines every content_block_delta emitted carries
\* the index of the block that is open at that moment: a content_block_start
\* for that index has been emitted and no content_block_stop for it yet
C34_DeltaOnOpenBlock ==
    \A i \in DOMAIN out :
        out[i].event = "content_block_delta" => OpenBlock(out, i - 1) = out[i].index

-----------------------------------------------------------------------------
(* Error events.                                                            *)

\* C36: at most one error event is emitted to the client per translated
\* streaming response, and an error event is the last event of its stream
C36_OneErrorEventLast ==
    /\ Count(out, "error") <= 1
    /\ \A i \in Positions(out, "error") : i = Len(out)

-----------------------------------------------------------------------------
(* Stream ID synchronizer: what it leaves alone.                            *)

\* no canonical id is recorded for the output_index of the n-th forwarded
\* event when it is processed
NoCanonicalID(log, n) ==
    \/ ~log[n].received.output_index.present
    \/ AddedBefore(log, n, log[n].received.output_index.value) = {}

\* C37: an event other than output_item.added/done that carries no item_id
\* field, or whose output_index has no canonical id recorded, is forwarded
\* with its data unchanged: no field is added to it
C37_OthersForwardedUnchanged ==
    \A n \in DOMAIN forwarded :
        (/\ forwarded[n].type \notin {"response.output_item.added",
                                       "response.output_item.done"}
         /\ \/ ~forwarded[n].received.item_id.present
            \/ NoCanonicalID(forwarded, n)) =>
            forwarded[n].data = forwarded[n].received

-----------------------------------------------------------------------------
(* Device-code login: PollAccessToken.                                      *)
(*                                                                          *)
(* poll.pc is where the loop stands: "sleep" before time.Sleep, "request"   *)
(* before the POST, "done" / "failed" once the function has returned.       *)
(* poll.interval is the argument, poll.pollInterval the local variable in   *)
(* seconds, poll.log the polls made: when, and the response.                *)

SlowDownStep == 5

MaxPolls == 4

\* AccessTokenResponse: the two fields the loop reads
AccessTokenResponse(accessToken, error) == [access_token |-> accessToken, error |-> error]

ErrExpired == "device code expired, please try again"

ErrDenied == "authorization denied by user"

ErrUnexpected == "unexpected error"

\* the switch on result.Error with the slow_down case not extending the
\* interval
AfterPoll_KeepInterval(p, result) ==
    CASE result.error = "" ->
            IF result.access_token # ""
            THEN [p EXCEPT !.pc = "done", !.token = result.access_token]
            ELSE [p EXCEPT !.pc = "sleep"]
      [] result.error \in {"authorization_pending", "slow_down"} -> [p EXCEPT !.pc = "sleep"]
      [] result.error = "expired_token" -> [p EXCEPT !.pc = "failed", !.err = ErrExpired]
      [] result.error = "access_denied" -> [p EXCEPT !.pc = "failed", !.err = ErrDenied]
      [] OTHER -> [p EXCEPT !.pc = "failed", !.err = ErrUnexpected]

\* the switch on result.Error
AfterPoll(p, result) ==
    CASE result.error = "" ->
            IF result.access_token # ""
            THEN [p EXCEPT !.pc = "done", !.token = result.access_token]
            ELSE [p EXCEPT !.pc = "sleep"]
      [] result.error = "authorization_pending" -> [p EXCEPT !.pc = "sleep"]
      [] result.error = "slow_down" ->
            [p EXCEPT !.pc = "sleep", !.pollInterval = @ + SlowDownStep]
      [] result.error = "expired_token" -> [p EXCEPT !.pc = "failed", !.err = ErrExpired]
      [] result.error = "access_denied" -> [p EXCEPT !.pc = "failed", !.err = ErrDenied]
      [] OTHER -> [p EXCEPT !.pc = "failed", !.err = ErrUnexpected]

\* time.Sleep(pollInterval)
PollSleep ==
    /\ poll.pc = "sleep"
    /\ now' = now + poll.pollInterval
    /\ poll' = [poll EXCEPT !.pc = "request"]
    /\ UNCHANGED <<streamVars, requestVars, syncVars>>
    /\ UNCHANGED <<refreshVars, limiterVars, authVars, connVars>>

\* the POST to the access token endpoint and the switch on its answer
PollRequest(result) ==
    /\ poll.pc = "request"
    /\ poll' = AfterPoll([poll EXCEPT !.log = Append(@, [at |-> now, result |-> result])],
                         result)
    /\ UNCHANGED <<now, streamVars, requestVars, syncVars>>
    /\ UNCHANGED <<refreshVars, limiterVars, authVars, connVars>>

PollIntervals == {1, 5}

PollResults ==
    { AccessTokenResponse("gho_1", ""),
      AccessTokenResponse("", ""),
      AccessTokenResponse("", "authorization_pending"),
      AccessTokenResponse("", "slow_down"),
      AccessTokenResponse("", "expired_token"),
      AccessTokenResponse("", "access_denied"),
      AccessTokenResponse("", "unsupported_grant_type") }

\* PollAccessToken(deviceCode, interval) has been called
InitPoll ==
    /\ StreamIdle
    /\ RequestIdle
    /\ SyncIdle
    /\ now = 0
    /\ RefreshIdle
    /\ LimiterIdle
    /\ AuthIdle
    /\ ConnIdle
    /\ \E interval \in PollIntervals :
          poll = [pc |-> "sleep", interval |-> interval, pollInterval |-> interval + 1,
                  log |-> << >>, token |-> "", err |-> ""]

PollAnswer == \E result \in PollResults : Len(poll.log) < MaxPolls /\ PollRequest(result)

NextPoll == PollSleep \/ PollAnswer

SpecPoll == InitPoll /\ [][NextPoll]_vars

\* number of slow_down answers among the first n polls
SlowDowns(n) ==
    Cardinality({ j \in 1..n : poll.log[j].result.error = "slow_down" })

\* when the k-th poll was due: the previous poll, or the call, plus the
\* interval in force
PollDue(k) ==
    (IF k = 1 THEN 0 ELSE poll.log[k - 1].at)
    + poll.interval + 1 + SlowDownStep * SlowDowns(k - 1)

\* C33: the token endpoint is polled every interval+1 seconds; each
\* slow_down answer extends the interval by 5 s for all later polls;
\* authorization_pending leaves it unchanged and polling continues;
\* expired_token and access_denied end polling with a terminal error
C33_PollingSchedule ==
    \A k \in DOMAIN poll.log :
        /\ poll.log[k].at = PollDue(k)
        /\ poll.log[k].result.error \in {"authorization_pending", "slow_down"} =>
              (k = Len(poll.log) => poll.pc \in {"sleep", "request"})
        /\ poll.log[k].result.error \in {"expired_token", "access_denied"} =>
              /\ k = Len(poll.log)
              /\ poll.pc = "failed"
              /\ poll.err = IF poll.log[k].result.error = "expired_token"
                            THEN ErrExpired ELSE ErrDenied
              /\ poll.token = ""

\* two slow_down answers, then a pending one: the fourth poll is due
\* interval + 11 seconds after the third
C33_Witness ==
    /\ Len(poll.log) = 4
    /\ poll.log[1].result.error = "slow_down"
    /\ poll.log[2].result.error = "slow_down"
    /\ poll.log[3].result.error = "authorization_pending"
    /\ poll.log[4].result.error = "expired_token"
    /\ poll.log[4].at - poll.log[3].at = poll.interval + 1 + 2 * SlowDownStep
    /\ poll.pc = "failed"

-----------------------------------------------------------------------------
(* Output tokens of a chat stream.                                          *)

\* the completion_tokens values the upstream reports in the stream
ReportedCompletionTokens ==
    { script[j].usage[1].completion_tokens :
        j \in { i \in DOMAIN script : script[i].valid /\ script[i].usage # << >> } }

\* the chunks that carry a usage are chunks with a finish_reason or
\* usage-only chunks with no choices
UsageOnFinalChunks ==
    \A j \in DOMAIN script :
        (script[j].valid /\ script[j].usage # << >>) =>
            (~script[j].hasChoices \/ script[j].finishReason # Nil)

\* C40: in a Chat Completions stream the output_tokens carried by
\* message_delta equals the completion_tokens the upstream reports for that
\* stream, whether the chunk with finish_reason carries the usage or a
\* separate usage-only chunk does
C40_MessageDeltaOutputTokens ==
    (/\ kind = "chat"
     /\ phase = "ended"
     /\ pos = Len(script)
     /\ UsageOnFinalChunks
     /\ Cardinality(ReportedCompletionTokens) = 1) =>
        \A i \in Positions(out, "message_delta") :
            \A c \in ReportedCompletionTokens :
                out[i].usage = <<DeltaUsage(c)>>

====
